---- MODULE Spec2Model ----
(***************************************************************************)
(* A model of the sales-analytics core: the cleaning stage, the business   *)
(* classifier, the category merge, the aggregation engine, the outreach    *)
(* and brand matching searches, and the dashboard session that caches the  *)
(* loaded, classified and enriched tables.                                 *)
(*                                                                         *)
(* A table is a record [columns, rows]: columns is the sequence of column  *)
(* names, rows a sequence of records over those columns.  Text is a TLA+   *)
(* string; Len, SubSeq and \o act on it character by character.            *)
(***************************************************************************)
EXTENDS Integers, Sequences, FiniteSets, TLC

VARIABLES
    df,               \* the table handed to the operation
    args,             \* the other arguments of the call
    op,               \* the operation applied last ("none" before any)
    result,           \* what that operation returned
    sales_data,       \* st.session_state.sales_data
    business_mapping, \* st.session_state.business_mapping
    processed_data    \* st.session_state.processed_data

vars == <<df, args, op, result, sales_data, business_mapping, processed_data>>

callVars == <<df, args, op, result>>
sessionVars == <<sales_data, business_mapping, processed_data>>

(***************************************************************************)
(* Bounds of the model.                                                    *)
(***************************************************************************)
MaxRawRows == 2
MaxRows == 3
MaxIds == 2
MaxN == 2

(***************************************************************************)
(* Python values.                                                          *)
(***************************************************************************)
None == [none |-> TRUE]

\* A raised exception, as the value a call ends with.
Raise(kind) == [error |-> kind]

IsRaise(v) == "error" \in DOMAIN v

\* A cell of a raw table: a missing value (NaN) or a text.
NaN == [na |-> TRUE, v |-> ""]

Str(s) == [na |-> FALSE, v |-> s]

(***************************************************************************)
(* str methods.                                                            *)
(***************************************************************************)
UpperChars == "ABCDEFGHIJKLMNOPQRSTUVWXYZ"

LowerChars == "abcdefghijklmnopqrstuvwxyz"

Char(s, i) == SubSeq(s, i, i)

\* The lower-case letter of each upper-case letter.
LowerTable ==
    [c \in {Char(UpperChars, i) : i \in 1..Len(UpperChars)} |->
        Char(LowerChars, CHOOSE i \in 1..Len(UpperChars) : Char(UpperChars, i) = c)]

LowerChar(c) == IF c \in DOMAIN LowerTable THEN LowerTable[c] ELSE c

RECURSIVE lower(_)
lower(s) ==
    IF s = "" THEN "" ELSE LowerChar(Char(s, 1)) \o lower(SubSeq(s, 2, Len(s)))

IsSpace(c) == c = " "

RECURSIVE lstrip(_)
lstrip(s) ==
    IF s # "" /\ IsSpace(Char(s, 1)) THEN lstrip(SubSeq(s, 2, Len(s))) ELSE s

RECURSIVE rstrip(_)
rstrip(s) ==
    IF s # "" /\ IsSpace(Char(s, Len(s))) THEN rstrip(SubSeq(s, 1, Len(s) - 1)) ELSE s

strip(s) == rstrip(lstrip(s))

\* needle in hay
Contains(hay, needle) ==
    \E i \in 1..(Len(hay) - Len(needle) + 1) :
        SubSeq(hay, i, i + Len(needle) - 1) = needle

\* Series.str.contains(pat, case=False, na=False) for a pattern of plain characters
StrContains(cell, pat) == Contains(lower(cell), lower(pat))

\* The characters of the model's texts in code-point order.
CodePoints == " &',-0123456789ABCDEFGHIJKLMNOPQRSTUVWXYZabcdefghijklmnopqrstuvwxyz"

OrdTable ==
    [c \in {Char(CodePoints, i) : i \in 1..Len(CodePoints)} |->
        CHOOSE i \in 1..Len(CodePoints) : Char(CodePoints, i) = c]

Ord(c) == OrdTable[c]

\* a < b on str
RECURSIVE StrLess(_, _)
StrLess(a, b) ==
    IF b = "" THEN FALSE
    ELSE IF a = "" THEN TRUE
    ELSE IF Char(a, 1) = Char(b, 1)
         THEN StrLess(SubSeq(a, 2, Len(a)), SubSeq(b, 2, Len(b)))
         ELSE Ord(Char(a, 1)) < Ord(Char(b, 1))

(***************************************************************************)
(* Sequences and tables.                                                   *)
(***************************************************************************)
Range(s) == {s[i] : i \in 1..Len(s)}

\* The element of a one-element set; the stages of a pipeline are bound as
\* elements of such sets, so that each stage is computed once.
Only(S) == CHOOSE x \in S : TRUE

SeqsUpTo(S, n) == UNION {[1..k -> S] : k \in 0..n}

RECURSIVE SumSeq(_)
SumSeq(s) == IF s = <<>> THEN 0 ELSE Head(s) + SumSeq(Tail(s))

\* Series.unique(): the values in order of first appearance
RECURSIVE Unique(_)
Unique(s) ==
    IF s = <<>> THEN <<>>
    ELSE LET h == Head(s)
             NotH(x) == x # h
         IN  <<h>> \o Unique(SelectSeq(Tail(s), NotH))

Table(columns, rows) == [columns |-> columns, rows |-> rows]

HasCol(t, c) == c \in Range(t.columns)

Col(t, c) == [i \in 1..Len(t.rows) |-> t.rows[i][c]]

\* df[mask], for the rows kept
Rows(t, rows) == Table(t.columns, rows)

\* df[c] = vals, adding the column when it is new
Assign(t, c, vals) ==
    Table(IF HasCol(t, c) THEN t.columns ELSE Append(t.columns, c),
          [i \in 1..Len(t.rows) |->
              [k \in DOMAIN t.rows[i] \cup {c} |->
                  IF k = c THEN vals[i] ELSE t.rows[i][k]]])

(***************************************************************************)
(* data_processor.clean_sales_data                                         *)
(***************************************************************************)
Digits == "0123456789"

IsDigit(c) == \E i \in 1..Len(Digits) : Char(Digits, i) = c

DigitVal(c) == (CHOOSE i \in 1..Len(Digits) : Char(Digits, i) = c) - 1

RECURSIVE ParseNat(_, _)
ParseNat(s, acc) ==
    IF s = "" THEN acc ELSE ParseNat(SubSeq(s, 2, Len(s)), 10 * acc + DigitVal(Char(s, 1)))

IsNatText(s) == s # "" /\ \A i \in 1..Len(s) : IsDigit(Char(s, i))

\* pd.to_numeric(cell, errors="coerce") on the text of an integer; any other
\* text of the model's pool is not a number and coerces to NaN.
ToNumeric(cell) ==
    IF cell.na THEN NaN
    ELSE LET s == strip(cell.v)
         IN  IF IsNatText(s) THEN [na |-> FALSE, v |-> ParseNat(s, 0)]
             ELSE IF Len(s) > 1 /\ Char(s, 1) = "-" /\ IsNatText(SubSeq(s, 2, Len(s)))
                  THEN [na |-> FALSE, v |-> 0 - ParseNat(SubSeq(s, 2, Len(s)), 0)]
                  ELSE NaN

\* Series.astype(str): a missing value becomes the text "nan"
AsTypeStr(cell) == IF cell.na THEN "nan" ELSE cell.v

CleanDropNa(t) ==
    LET Present(r) == ~r["customer_id"].na /\ ~r["product_id"].na /\ ~r["sales_amount"].na
    IN  Rows(t, SelectSeq(t.rows, Present))

CleanAmount(t) ==
    IF ~HasCol(t, "sales_amount") THEN t
    ELSE LET num == Assign(t, "sales_amount",
                           [i \in 1..Len(t.rows) |-> ToNumeric(t.rows[i]["sales_amount"])])
             Positive(r) == ~r["sales_amount"].na /\ r["sales_amount"].v > 0
             kept == Rows(num, SelectSeq(num.rows, Positive))
         IN  Assign(kept, "sales_amount",
                    [i \in 1..Len(kept.rows) |-> kept.rows[i]["sales_amount"].v])

CleanCategory(t) ==
    IF ~HasCol(t, "product_category") THEN t
    ELSE LET text == Assign(t, "product_category",
                            [i \in 1..Len(t.rows) |->
                                strip(AsTypeStr(t.rows[i]["product_category"]))])
             NotNanText(r) == r["product_category"] # "nan"
         IN  Rows(text, SelectSeq(text.rows, NotNanText))

CleanText(t, c) ==
    IF ~HasCol(t, c) THEN t
    ELSE Assign(t, c, [i \in 1..Len(t.rows) |-> strip(AsTypeStr(t.rows[i][c]))])

clean_sales_data(t) ==
    IF ~({"customer_id", "product_id", "sales_amount"} \subseteq Range(t.columns))
    THEN Raise("KeyError")
    ELSE CleanText(CleanText(CleanCategory(CleanAmount(CleanDropNa(t))),
                             "customer_id"), "product_id")

(***************************************************************************)
(* config.BUSINESS_KEYWORDS, in its declared order                         *)
(***************************************************************************)
BUSINESS_KEYWORDS == <<
    [category |-> "Retail",
     keywords |-> <<"retail", "store", "shop", "market", "outlet", "merchant">>],
    [category |-> "Healthcare",
     keywords |-> <<"health", "medical", "hospital", "clinic", "pharmacy", "doctor", "nurse">>],
    [category |-> "Manufacturing",
     keywords |-> <<"manufacturing", "factory", "production", "industrial", "manufacturer">>],
    [category |-> "Technology",
     keywords |-> <<"tech", "software", "IT", "computer", "digital", "technology", "tech company">>],
    [category |-> "Finance",
     keywords |-> <<"bank", "financial", "finance", "investment", "accounting", "insurance">>],
    [category |-> "Education",
     keywords |-> <<"school", "university", "education", "college", "academy", "learning">>],
    [category |-> "Real Estate",
     keywords |-> <<"real estate", "property", "realty", "housing", "construction">>],
    [category |-> "Hospitality",
     keywords |-> <<"hotel", "restaurant", "hospitality", "catering", "tourism">>],
    [category |-> "Transportation",
     keywords |-> <<"transport", "logistics", "shipping", "delivery", "freight">>],
    [category |-> "Construction",
     keywords |-> <<"construction", "contractor", "building", "architect">>],
    [category |-> "Food & Beverage",
     keywords |-> <<"food", "restaurant", "cafe", "beverage", "catering">>],
    [category |-> "Professional Services",
     keywords |-> <<"consulting", "legal", "law", "advisory", "services">>] >>

(***************************************************************************)
(* business_classifier                                                     *)
(***************************************************************************)
\* An Optional[str] that is a text.
Some(s) == [none |-> FALSE, v |-> s]

\* str(x) of a customer id: customer ids are texts, which str() returns as they are
PyStr(x) == x

\* keyword.lower(), for every keyword of the table
KeywordsLowered ==
    [c \in 1..Len(BUSINESS_KEYWORDS) |->
        [category |-> BUSINESS_KEYWORDS[c].category,
         keywords |-> [k \in 1..Len(BUSINESS_KEYWORDS[c].keywords) |->
                          lower(BUSINESS_KEYWORDS[c].keywords[k])]]]

\* The first category of the table, in order, one of whose keywords occurs in
\* the lowered name; None when there is none.
ClassifyFrom(customer_lower, table) ==
    LET Hit(e) == \E k \in 1..Len(e.keywords) : Contains(customer_lower, e.keywords[k])
        hits == SelectSeq(table, Hit)
    IN  IF hits = <<>> THEN None ELSE Some(hits[1].category)

\* Mutant: the last matching category instead of the first.
classify_by_keywords_LastMatch(customer_name) ==
    LET customer_lower == lower(PyStr(customer_name))
        Hit(e) == \E k \in 1..Len(e.keywords) : Contains(customer_lower, e.keywords[k])
        hits == SelectSeq(KeywordsLowered, Hit)
    IN  IF hits = <<>> THEN None ELSE Some(hits[Len(hits)].category)

classify_by_keywords(customer_name) ==
    ClassifyFrom(lower(PyStr(customer_name)), KeywordsLowered)

\* The rows of a mapping file as load_business_mapping reads them, later rows
\* replacing earlier ones with the same customer id.
RECURSIVE LoadRows(_, _)
LoadRows(rows, mapping) ==
    IF rows = <<>> THEN mapping
    ELSE LET row == Head(rows)
             cid == strip(AsTypeStr(row["customer_id"]))
             cat == IF ~row["business_category"].na
                    THEN strip(AsTypeStr(row["business_category"])) ELSE ""
             val == row["business_sub_category"]
             sub == IF ~val.na /\ strip(AsTypeStr(val)) # ""
                    THEN Some(strip(AsTypeStr(val))) ELSE None
         IN  LoadRows(Tail(rows),
                      [k \in DOMAIN mapping \cup {cid} |->
                          IF k = cid THEN <<cat, sub>> ELSE mapping[k]])

load_business_mapping(file) ==
    IF ~file.readable THEN Raise("ValueError") ELSE LoadRows(file.rows, <<>>)

\* Mutant: the keyword category replaces the pair an id already has.
RECURSIVE FillKeywords_Override(_, _)
FillKeywords_Override(customer_ids, mapping) ==
    IF customer_ids = <<>> THEN mapping
    ELSE LET customer_id == Head(customer_ids)
             classified == classify_by_keywords(customer_id)
         IN  FillKeywords_Override(Tail(customer_ids),
                 [k \in DOMAIN mapping \cup {customer_id} |->
                     IF k = customer_id
                     THEN <<IF classified # None THEN classified.v ELSE "Other", None>>
                     ELSE mapping[k]])

\* mapping[customer_id] = pair, for each customer id not yet in the mapping
RECURSIVE FillKeywords(_, _)
FillKeywords(customer_ids, mapping) ==
    IF customer_ids = <<>> THEN mapping
    ELSE LET customer_id == Head(customer_ids)
             classified == classify_by_keywords(customer_id)
         IN  FillKeywords(Tail(customer_ids),
                 IF customer_id \in DOMAIN mapping THEN mapping
                 ELSE [k \in DOMAIN mapping \cup {customer_id} |->
                          IF k = customer_id
                          THEN <<IF classified # None THEN classified.v ELSE "Other", None>>
                          ELSE mapping[k]])

RECURSIVE FillOther(_, _)
FillOther(customer_ids, mapping) ==
    IF customer_ids = <<>> THEN mapping
    ELSE LET customer_id == Head(customer_ids)
         IN  FillOther(Tail(customer_ids),
                 IF customer_id \in DOMAIN mapping THEN mapping
                 ELSE [k \in DOMAIN mapping \cup {customer_id} |->
                          IF k = customer_id THEN <<"Other", None>> ELSE mapping[k]])

\* Mutant: no final default of "Other" for the customers still without a category.
create_business_mapping_NoDefault(customer_ids, mapping_file, use_keywords) ==
    LET file_mapping == IF mapping_file # None THEN load_business_mapping(mapping_file)
                        ELSE <<>>
    IN  IF IsRaise(file_mapping) THEN file_mapping
        ELSE IF use_keywords THEN FillKeywords(customer_ids, file_mapping)
             ELSE file_mapping

create_business_mapping(customer_ids, mapping_file, use_keywords) ==
    LET file_mapping == IF mapping_file # None THEN load_business_mapping(mapping_file)
                        ELSE <<>>
    IN  IF IsRaise(file_mapping) THEN file_mapping
        ELSE FillOther(customer_ids,
                       IF use_keywords THEN FillKeywords(customer_ids, file_mapping)
                       ELSE file_mapping)

get_unique_customers(t) ==
    IF ~HasCol(t, "customer_id") THEN Raise("ValueError")
    ELSE Unique(Col(t, "customer_id"))

(***************************************************************************)
(* data_processor.merge_business_categories                                *)
(***************************************************************************)
\* Mutant: a lookup miss defaults to ("Other", None).
MappingGet_Other(mapping, cid) ==
    IF PyStr(cid) \in DOMAIN mapping THEN mapping[PyStr(cid)] ELSE <<"Other", None>>

\* business_mapping.get(str(cid), ("Unknown", None))
MappingGet(mapping, cid) ==
    IF PyStr(cid) \in DOMAIN mapping THEN mapping[PyStr(cid)] ELSE <<"Unknown", None>>

get_category(mapping, cid) == MappingGet(mapping, cid)[1]

get_sub_category(mapping, cid) ==
    LET pair == MappingGet(mapping, cid)
    IN  IF pair[2] # None THEN pair[2].v ELSE "Unspecified"

merge_business_categories(t, mapping) ==
    LET cat == Assign(t, "business_category",
                      [i \in 1..Len(t.rows) |-> get_category(mapping, t.rows[i]["customer_id"])])
    IN  Assign(cat, "business_sub_category",
               [i \in 1..Len(t.rows) |-> get_sub_category(mapping, t.rows[i]["customer_id"])])

(***************************************************************************)
(* Ordering and numbers.                                                   *)
(***************************************************************************)
\* sorted(S) for a set of texts
RECURSIVE SortStrings(_)
SortStrings(S) ==
    IF S = {} THEN <<>>
    ELSE LET least == CHOOSE x \in S : \A y \in S \ {x} : StrLess(x, y)
         IN  <<least>> \o SortStrings(S \ {least})

\* A quotient num / den of integers with den > 0, kept exact.
Ratio(num, den) == [num |-> num, den |-> den]

RatioLess(a, b) == a.num * b.den < b.num * a.den

RatioEq(a, b) == a.num * b.den = b.num * a.den

Injective(f) == \A i, j \in DOMAIN f : f[i] = f[j] => i = j

\* The orders in which a sort that is not stable may leave the rows: any
\* arrangement of them whose keys (Ratios) run as asked.  Series.sort_values
\* and DataFrame.sort_values use kind="quicksort", which fixes no order among
\* rows with equal keys.
SortValues(rows, keys, ascending) ==
    LET n == Len(rows)
        InOrder(f) ==
            \A i \in 1..(n - 1) :
                IF ascending THEN ~RatioLess(keys[f[i + 1]], keys[f[i]])
                ELSE ~RatioLess(keys[f[i]], keys[f[i + 1]])
    IN  {[i \in 1..n |-> rows[f[i]]] :
            f \in {g \in [1..n -> 1..n] : Injective(g) /\ InOrder(g)}}

\* The rows in descending order of their keys, rows with equal keys in their
\* original order.
StableDescending(rows, keys) ==
    LET n == Len(rows)
        Position(i) ==
            Cardinality({j \in 1..n : RatioLess(keys[i], keys[j])})
            + Cardinality({j \in 1..(i - 1) : RatioEq(keys[i], keys[j])}) + 1
    IN  [p \in 1..n |-> rows[CHOOSE i \in 1..n : Position(i) = p]]

(***************************************************************************)
(* analytics                                                               *)
(***************************************************************************)
HasCategoryColumns(t) == HasCol(t, "business_category") /\ HasCol(t, "product_category")

\* The rows of the group with these keys.
GroupRows(t, b, p) ==
    LET InGroup(r) == r["business_category"] = b /\ r["product_category"] = p
    IN  SelectSeq(t.rows, InGroup)

Amounts(rows) == [i \in 1..Len(rows) |-> rows[i]["sales_amount"]]

\* groupby(["business_category", "product_category"]): the keys that occur,
\* sorted by business category and then product category
GroupKeys(t) ==
    LET bs == SortStrings(Range(Col(t, "business_category")))
        ps == SortStrings(Range(Col(t, "product_category")))
        PairAt(k) == <<bs[((k - 1) \div Len(ps)) + 1], ps[((k - 1) % Len(ps)) + 1]>>
        Occurs(pair) == GroupRows(t, pair[1], pair[2]) # <<>>
    IN  SelectSeq([k \in 1..(Len(bs) * Len(ps)) |-> PairAt(k)], Occurs)

\* Mutant: the grouped sums alone, without the zero-filled pivot.
calculate_category_matrix_Sparse(t) ==
    IF ~HasCategoryColumns(t) THEN Raise("ValueError")
    ELSE [index |-> SortStrings(Range(Col(t, "business_category"))),
          columns |-> SortStrings(Range(Col(t, "product_category"))),
          cell |-> [pair \in Range(GroupKeys(t)) |->
                       SumSeq(Amounts(GroupRows(t, pair[1], pair[2])))]]

\* Mutant: the pivot of transaction counts.
calculate_category_matrix_Count(t) ==
    IF ~HasCategoryColumns(t) THEN Raise("ValueError")
    ELSE LET index == SortStrings(Range(Col(t, "business_category")))
             columns == SortStrings(Range(Col(t, "product_category")))
         IN  [index |-> index, columns |-> columns,
              cell |-> [pair \in Range(index) \X Range(columns) |->
                           Len(GroupRows(t, pair[1], pair[2]))]]

\* pd.pivot_table(values="sales_amount", index="business_category",
\* columns="product_category", aggfunc="sum", fill_value=0)
PivotSum(t) ==
    LET index == SortStrings(Range(Col(t, "business_category")))
        columns == SortStrings(Range(Col(t, "product_category")))
        observed == Range(GroupKeys(t))
    IN  [index |-> index, columns |-> columns,
         cell |-> [pair \in Range(index) \X Range(columns) |->
                      IF pair \in observed
                      THEN SumSeq(Amounts(GroupRows(t, pair[1], pair[2])))
                      ELSE 0]]

calculate_category_matrix(t) ==
    IF ~HasCategoryColumns(t) THEN Raise("ValueError") ELSE PivotSum(t)

\* groupby(...).agg({"sales_amount": ["sum", "mean", "count"]}).reset_index()
Grouped(t) ==
    LET keys == GroupKeys(t)
    IN  [k \in 1..Len(keys) |->
            LET amounts == Amounts(GroupRows(t, keys[k][1], keys[k][2]))
            IN  [business_category |-> keys[k][1],
                 product_category |-> keys[k][2],
                 total_revenue |-> SumSeq(amounts),
                 avg_value |-> Ratio(SumSeq(amounts), Len(amounts)),
                 transaction_count |-> Len(amounts)]]

SortCol(metric) ==
    IF metric = "revenue" THEN "total_revenue"
    ELSE IF metric = "count" THEN "transaction_count"
    ELSE IF metric = "avg_value" THEN "avg_value"
    ELSE "total_revenue"

\* The value of a row in the column sorted by, as a Ratio.
SortKey(row, sort_col) ==
    IF sort_col = "avg_value" THEN row["avg_value"] ELSE Ratio(row[sort_col], 1)

\* DataFrame.nlargest(n, sort_col), keep="first".  With n below the number of
\* rows the n largest are selected and ordered by a stable sort; with n at or
\* above it the whole column goes through sort_values(ascending=False).
NLargest(rows, n, sort_col) ==
    LET keys == [i \in 1..Len(rows) |-> SortKey(rows[i], sort_col)]
    IN  IF n <= 0 THEN {<<>>}
        ELSE IF n >= Len(rows) THEN SortValues(rows, keys, FALSE)
        ELSE {SubSeq(StableDescending(rows, keys), 1, n)}

\* The tables get_top_combinations may return.
get_top_combinations(t, n, metric) ==
    IF ~HasCategoryColumns(t) THEN {Raise("ValueError")}
    ELSE NLargest(Grouped(t), n, SortCol(metric))

\* Mutant: the share of product categories bought instead of the share not bought.
BusinessProductCounts_Coverage(t) ==
    LET bs == SortStrings(Range(Col(t, "business_category")))
        total_product_categories == Cardinality(Range(Col(t, "product_category")))
    IN  [k \in 1..Len(bs) |->
            LET bought == Cardinality({p \in Range(Col(t, "product_category")) :
                                          GroupRows(t, bs[k], p) # <<>>})
            IN  [business_category |-> bs[k],
                 product_categories_bought |-> bought,
                 total_product_categories |-> total_product_categories,
                 opportunity_score |-> Ratio(bought, total_product_categories)]]

\* groupby("business_category")["product_category"].nunique().reset_index(), with
\* the total and the score columns added
BusinessProductCounts(t) ==
    LET bs == SortStrings(Range(Col(t, "business_category")))
        total_product_categories == Cardinality(Range(Col(t, "product_category")))
    IN  [k \in 1..Len(bs) |->
            LET bought == Cardinality({p \in Range(Col(t, "product_category")) :
                                          GroupRows(t, bs[k], p) # <<>>})
            IN  [business_category |-> bs[k],
                 product_categories_bought |-> bought,
                 total_product_categories |-> total_product_categories,
                 opportunity_score |-> Ratio(total_product_categories - bought,
                                             total_product_categories)]]

\* The tables identify_opportunities may return.
identify_opportunities(t) ==
    IF ~HasCategoryColumns(t) THEN {Raise("ValueError")}
    ELSE LET rows == BusinessProductCounts(t)
         IN  SortValues(rows, [i \in 1..Len(rows) |-> rows[i]["opportunity_score"]], FALSE)

(***************************************************************************)
(* outreach_automation                                                     *)
(***************************************************************************)
\* sep.join(texts)
RECURSIVE Join(_, _)
Join(texts, sep) ==
    IF texts = <<>> THEN ""
    ELSE IF Len(texts) = 1 THEN texts[1]
    ELSE texts[1] \o sep \o Join(Tail(texts), sep)

\* s.head(n), s[:n]
FirstN(s, n) == SubSeq(s, 1, IF Len(s) < n THEN Len(s) ELSE n)

\* df[df[c].str.contains(pat, case=False, na=False)]
WhereContains(t, c, pat) ==
    LET Match(r) == StrContains(r[c], pat)
    IN  Rows(t, SelectSeq(t.rows, Match))

\* df[df[c] == v]
WhereEq(t, c, v) ==
    LET Match(r) == r[c] = v
    IN  Rows(t, SelectSeq(t.rows, Match))

\* The position of the first comma of a text, 0 when it has none.
CommaAt(s) ==
    IF \E i \in 1..Len(s) : Char(s, i) = ","
    THEN CHOOSE i \in 1..Len(s) : Char(s, i) = "," /\ \A j \in 1..(i - 1) : Char(s, j) # ","
    ELSE 0

\* location.split(",")[0] for a location with at most one comma
CityPart(location) ==
    IF CommaAt(location) = 0 THEN location ELSE SubSeq(location, 1, CommaAt(location) - 1)

\* `if x:` for an Optional[str]
Truthy(x) == x # None /\ x.v # ""

\* The rows find_target_businesses_for_outreach keeps for its location and
\* state arguments.
OutreachFilter(t, location, state) ==
    IF Truthy(location)
    THEN IF HasCol(t, "location") THEN WhereContains(t, "location", location.v)
         ELSE IF HasCol(t, "city") /\ HasCol(t, "state")
              THEN WhereContains(t, "city", strip(CityPart(location.v)))
              ELSE t
    ELSE IF Truthy(state)
         THEN IF HasCol(t, "state") THEN WhereContains(t, "state", state.v)
              ELSE IF HasCol(t, "location") THEN WhereContains(t, "location", state.v)
                   ELSE t
         ELSE t

\* Series.value_counts(): the values, most frequent first; the sort behind it
\* fixes no order among values with equal counts.
ValueCounts(values) ==
    LET distinct == Unique(values)
        Count(v) == Cardinality({i \in 1..Len(values) : values[i] = v})
    IN  SortValues(distinct, [i \in 1..Len(distinct) |-> Ratio(Count(distinct[i]), 1)], FALSE)

\* The lists find_similar_products may return.
find_similar_products(t, product_category, n_similar) ==
    LET buyers == Range(Col(WhereEq(t, "product_category", product_category), "customer_id"))
        IsBuyer(r) == r["customer_id"] \in buyers
        Other(c) == c # product_category
    IN  {FirstN(SelectSeq(counts, Other), n_similar) :
            counts \in ValueCounts(Col(Rows(t, SelectSeq(t.rows, IsBuyer)), "product_category"))}

\* The location reported for a customer, from the customer's first row.
LocationOf(row) ==
    IF "location" \in DOMAIN row THEN row["location"]
    ELSE IF "city" \in DOMAIN row /\ "state" \in DOMAIN row
         THEN row["city"] \o ", " \o row["state"]
         ELSE "Unknown"

TargetColumns ==
    <<"customer_id", "business_category", "location", "current_products",
      "recommended_product", "similar_products", "total_revenue",
      "product_diversity", "opportunity_score">>

\* Mutant: the score counts the customer's rows, not the distinct categories.
TargetRow_RowCount(customer_data, business_category, product_category, similar_products) ==
    LET products_bought == Unique(Col(customer_data, "product_category"))
    IN  [customer_id |-> customer_data.rows[1]["customer_id"],
         business_category |-> business_category,
         location |-> LocationOf(customer_data.rows[1]),
         current_products |-> Join(products_bought, ", "),
         recommended_product |-> product_category,
         similar_products |-> Join(similar_products, ", "),
         total_revenue |-> SumSeq(Amounts(customer_data.rows)),
         product_diversity |-> Len(products_bought),
         opportunity_score |-> Len(customer_data.rows)]

\* The entry appended to targets for a customer with these rows.
TargetRow(customer_data, business_category, product_category, similar_products) ==
    LET products_bought == Unique(Col(customer_data, "product_category"))
    IN  [customer_id |-> customer_data.rows[1]["customer_id"],
         business_category |-> business_category,
         location |-> LocationOf(customer_data.rows[1]),
         current_products |-> Join(products_bought, ", "),
         recommended_product |-> product_category,
         similar_products |-> Join(similar_products, ", "),
         total_revenue |-> SumSeq(Amounts(customer_data.rows)),
         product_diversity |-> Len(products_bought),
         opportunity_score |-> Len(products_bought)]

\* The tables find_target_businesses_for_outreach may return.
find_target_businesses_for_outreach(t, business_category, product_category, location, state) ==
    LET filtered_df == OutreachFilter(t, location, state)
        target_businesses == WhereEq(filtered_df, "business_category", business_category)
        customers == Unique(Col(target_businesses, "customer_id"))
        NotBuying(customer_id) ==
            \A i \in 1..Len(filtered_df.rows) :
                filtered_df.rows[i]["customer_id"] = customer_id =>
                    filtered_df.rows[i]["product_category"] # product_category
        chosen == SelectSeq(customers, NotBuying)
    IN  IF chosen = <<>> THEN {Table(TargetColumns, <<>>)}
        ELSE UNION {
               LET targets == [i \in 1..Len(chosen) |->
                                  TargetRow(WhereEq(filtered_df, "customer_id", chosen[i]),
                                            business_category, product_category, similar)]
               IN  {Table(TargetColumns, rows) :
                       rows \in SortValues(targets,
                                           [i \in 1..Len(targets) |->
                                               Ratio(targets[i]["opportunity_score"], 1)],
                                           TRUE)} :
               similar \in find_similar_products(filtered_df, product_category, 3)}

(***************************************************************************)
(* brand_matching.find_businesses_for_brand                                *)
(***************************************************************************)
Max(a, b) == IF a >= b THEN a ELSE b

\* Mutant: the overlap relative to the customer's categories alone.
MatchScore_ByCustomer(customer_categories, brand_categories_set) ==
    IF Cardinality(customer_categories) > 0
    THEN Ratio(Cardinality(customer_categories \cap brand_categories_set),
               Cardinality(customer_categories))
    ELSE Ratio(0, 1)

MatchScore(customer_categories, brand_categories_set) ==
    IF Cardinality(customer_categories) > 0
    THEN Ratio(Cardinality(customer_categories \cap brand_categories_set),
               Max(Cardinality(customer_categories), Cardinality(brand_categories_set)))
    ELSE Ratio(0, 1)

\* The names recommended: for each brand category the customer buys, in
\* catalogue order, the first three product names of that category.
RECURSIVE RecommendedFor(_, _, _)
RecommendedFor(brand_categories, customer_categories, brand_products_df) ==
    IF brand_categories = <<>> THEN <<>>
    ELSE LET cat == Head(brand_categories)
             rest == RecommendedFor(Tail(brand_categories), customer_categories,
                                    brand_products_df)
         IN  IF cat \in customer_categories
             THEN FirstN(Col(WhereEq(brand_products_df, "product_category", cat),
                             "product_name"), 3) \o rest
             ELSE rest

MatchColumns ==
    <<"customer_id", "business_category", "location", "current_product_categories",
      "brand_product_categories", "category_overlap", "match_score",
      "recommended_products", "total_revenue", "product_diversity", "opportunity_score">>

\* Mutant: a customer that buys no brand category is not set back.
BrandOpportunityScore_NoPenalty(customer_categories, buys_brand_category) ==
    Cardinality(customer_categories)

\* len(customer_categories) if buys_brand_category else len(customer_categories) + 10
BrandOpportunityScore(customer_categories, buys_brand_category) ==
    IF buys_brand_category THEN Cardinality(customer_categories)
    ELSE Cardinality(customer_categories) + 10

\* Mutant: the minimum match score is not applied.
PassesMinimum_Always(match_score, min_score) == TRUE

\* match_score >= min_match_score
PassesMinimum(match_score, min_score) == ~RatioLess(match_score, min_score)

\* The entry appended to matches for a customer with these rows.
MatchRow(customer_data, brand_products_df) ==
    LET brand_categories == Unique(Col(brand_products_df, "product_category"))
        customer_categories == Range(Col(customer_data, "product_category"))
        brand_categories_set == Range(brand_categories)
        category_overlap == Cardinality(customer_categories \cap brand_categories_set)
        buys_brand_category == category_overlap > 0
        by_category == RecommendedFor(brand_categories, customer_categories, brand_products_df)
        recommended_products ==
            IF by_category = <<>> THEN FirstN(Col(brand_products_df, "product_name"), 5)
            ELSE by_category
    IN  [customer_id |-> customer_data.rows[1]["customer_id"],
         business_category |-> customer_data.rows[1]["business_category"],
         location |-> LocationOf(customer_data.rows[1]),
         current_product_categories |-> Join(SortStrings(customer_categories), ", "),
         brand_product_categories |-> Join(brand_categories, ", "),
         category_overlap |-> category_overlap,
         match_score |-> MatchScore(customer_categories, brand_categories_set),
         recommended_products |-> Join(FirstN(recommended_products, 5), " | "),
         total_revenue |-> SumSeq(Amounts(customer_data.rows)),
         product_diversity |-> Cardinality(customer_categories),
         opportunity_score |-> BrandOpportunityScore(customer_categories, buys_brand_category)]

\* The rows find_businesses_for_brand keeps for its business_categories (a
\* list or None) and location_filter arguments.
BrandFilter(t, business_categories, location_filter) ==
    LET InCategories(r) == r["business_category"] \in Range(business_categories.v)
        by_category == IF business_categories # None /\ business_categories.v # <<>>
                       THEN Rows(t, SelectSeq(t.rows, InCategories))
                       ELSE t
    IN  IF Truthy(location_filter)
        THEN IF HasCol(by_category, "state")
             THEN WhereContains(by_category, "state", location_filter.v)
             ELSE IF HasCol(by_category, "location")
                  THEN WhereContains(by_category, "location", location_filter.v)
                  ELSE by_category
        ELSE by_category

\* The tables find_businesses_for_brand may return.
find_businesses_for_brand(t, brand_products_df, business_categories, location_filter, min_score) ==
    LET filtered_df == BrandFilter(t, business_categories, location_filter)
        customers == Unique(Col(filtered_df, "customer_id"))
        matches == [i \in 1..Len(customers) |->
                       MatchRow(WhereEq(filtered_df, "customer_id", customers[i]),
                                brand_products_df)]
        Enough(m) == PassesMinimum(m["match_score"], min_score)
        kept == SelectSeq(matches, Enough)
    IN  IF matches = <<>> THEN {Table(MatchColumns, <<>>)}
        ELSE {Table(MatchColumns, rows) :
                 rows \in SortValues(kept,
                                     [i \in 1..Len(kept) |-> Ratio(kept[i]["opportunity_score"], 1)],
                                     TRUE)}

(***************************************************************************)
(* brand_product_matcher.match_brand_to_buyers                             *)
(***************************************************************************)
MatcherColumns ==
    <<"customer_id", "business_category", "location", "brand_category",
      "recommended_brand_products", "current_products", "similar_products",
      "total_revenue", "opportunity_score", "match_reason">>

\* The rows match_brand_to_buyers keeps: by location first, on the state
\* column when there is one, then by business category.
MatcherFilter(t, location_filter, business_category_filter) ==
    LET by_location ==
            IF Truthy(location_filter)
            THEN IF HasCol(t, "state") THEN WhereContains(t, "state", location_filter.v)
                 ELSE IF HasCol(t, "location")
                      THEN WhereContains(t, "location", location_filter.v)
                      ELSE t
            ELSE t
    IN  IF Truthy(business_category_filter)
        THEN WhereEq(by_location, "business_category", business_category_filter.v)
        ELSE by_location

\* The entries appended to results for the buyers found for a brand category.
BuyerRows(similar_buyers, brand_category, brand_products_df) ==
    LET names == Col(WhereEq(brand_products_df, "product_category", brand_category),
                     "product_name")
    IN  [i \in 1..Len(similar_buyers.rows) |->
            LET buyer == similar_buyers.rows[i]
            IN  [customer_id |-> buyer["customer_id"],
                 business_category |-> buyer["business_category"],
                 location |-> buyer["location"],
                 brand_category |-> brand_category,
                 recommended_brand_products |-> Join(FirstN(names, 5), ", "),
                 current_products |-> buyer["current_products"],
                 similar_products |-> buyer["similar_products"],
                 total_revenue |-> buyer["total_revenue"],
                 opportunity_score |-> buyer["opportunity_score"],
                 match_reason |-> "Buys similar " \o brand_category \o " products"]]

\* The lists the loop over the brand categories may leave in results.
RECURSIVE MatcherResults(_, _, _, _, _)
MatcherResults(brand_categories, filtered_sales, brand_products_df, business_category, location) ==
    IF brand_categories = <<>> THEN {<<>>}
    ELSE {BuyerRows(similar_buyers, Head(brand_categories), brand_products_df) \o rest :
             similar_buyers \in find_target_businesses_for_outreach(
                                    filtered_sales, business_category,
                                    Head(brand_categories), location, None),
             rest \in MatcherResults(Tail(brand_categories), filtered_sales,
                                     brand_products_df, business_category, location)}

\* Mutant: of the rows of a customer the last is kept.
DropDuplicateCustomers_KeepLast(rows) ==
    LET Last(i) == \A j \in (i + 1)..Len(rows) : rows[j]["customer_id"] # rows[i]["customer_id"]
        kept == SelectSeq([i \in 1..Len(rows) |-> i], Last)
    IN  [k \in 1..Len(kept) |-> rows[kept[k]]]

\* results_df.drop_duplicates(subset=["customer_id"], keep="first")
DropDuplicateCustomers(rows) ==
    LET First(i) == \A j \in 1..(i - 1) : rows[j]["customer_id"] # rows[i]["customer_id"]
        kept == SelectSeq([i \in 1..Len(rows) |-> i], First)
    IN  [k \in 1..Len(kept) |-> rows[kept[k]]]

\* Mutant: without a filter, the category of the last row is looked for.
SearchedCategory_Last(filtered_sales, business_category_filter) ==
    IF Truthy(business_category_filter) THEN business_category_filter.v
    ELSE filtered_sales.rows[Len(filtered_sales.rows)]["business_category"]

\* business_category_filter if business_category_filter else
\* filtered_sales["business_category"].iloc[0]
SearchedCategory(filtered_sales, business_category_filter) ==
    IF Truthy(business_category_filter) THEN business_category_filter.v
    ELSE filtered_sales.rows[1]["business_category"]

\* The outcomes of match_brand_to_buyers: tables, or the IndexError of
\* iloc[0] on a table without rows.
match_brand_to_buyers(t, brand_products_df, location_filter, business_category_filter) ==
    LET brand_categories == Unique(Col(brand_products_df, "product_category"))
        filtered_sales == MatcherFilter(t, location_filter, business_category_filter)
        business_category == SearchedCategory(filtered_sales, business_category_filter)
    IN  IF brand_categories # <<>> /\ ~Truthy(business_category_filter)
           /\ filtered_sales.rows = <<>>
        THEN {Raise("IndexError")}
        ELSE UNION {
               IF results = <<>> THEN {Table(MatcherColumns, <<>>)}
               ELSE {Table(MatcherColumns, rows) :
                        rows \in SortValues(
                                   DropDuplicateCustomers(results),
                                   [i \in 1..Len(DropDuplicateCustomers(results)) |->
                                       Ratio(DropDuplicateCustomers(results)[i]["opportunity_score"], 1)],
                                   TRUE)} :
               results \in MatcherResults(brand_categories, filtered_sales,
                                          brand_products_df, business_category,
                                          location_filter)}

(***************************************************************************)
(* data_processor: the loading pipeline                                    *)
(***************************************************************************)
\* A file is [readable, table]; pd.read_csv fails on an unreadable one.
load_sales_data(file) ==
    IF ~file.readable THEN Raise("ValueError") ELSE file.table

REQUIRED_COLUMNS ==
    <<"customer_id", "product_id", "product_category", "transaction_date", "sales_amount">>

COLUMN_MAPPINGS == <<
    [standard |-> "customer_id", names |-> <<"customer_id", "customer", "client_id", "client">>],
    [standard |-> "product_id", names |-> <<"product_id", "product", "item_id", "item">>],
    [standard |-> "product_category", names |-> <<"product_category", "category", "product_type">>],
    [standard |-> "transaction_date",
     names |-> <<"transaction_date", "date", "sale_date", "purchase_date">>],
    [standard |-> "sales_amount", names |-> <<"sales_amount", "amount", "revenue", "price", "total">>],
    [standard |-> "city", names |-> <<"city", "customer_city", "buyer_city">>],
    [standard |-> "state", names |-> <<"state", "customer_state", "buyer_state", "province">>],
    [standard |-> "location", names |-> <<"location", "city_state", "full_location">> ] >>

\* [name.lower() for name in possible_names], for each entry
LoweredNames ==
    [e \in 1..Len(COLUMN_MAPPINGS) |->
        {lower(COLUMN_MAPPINGS[e].names[k]) : k \in 1..Len(COLUMN_MAPPINGS[e].names)}]

\* Mutant: the last column that matches, not the first.
FirstMatch_Last(lowered_columns, lowered_names) ==
    LET Matches(i) == lowered_columns[i] \in lowered_names
    IN  IF \E i \in 1..Len(lowered_columns) : Matches(i)
        THEN CHOOSE i \in 1..Len(lowered_columns) :
                 Matches(i) /\ \A j \in (i + 1)..Len(lowered_columns) : ~Matches(j)
        ELSE 0

\* The first column whose lowered name is one of the lowered possible names,
\* 0 if none.
FirstMatch(lowered_columns, lowered_names) ==
    LET Matches(i) == lowered_columns[i] \in lowered_names
    IN  IF \E i \in 1..Len(lowered_columns) : Matches(i)
        THEN CHOOSE i \in 1..Len(lowered_columns) :
                 Matches(i) /\ \A j \in 1..(i - 1) : ~Matches(j)
        ELSE 0

\* column_mapping[columns[i]] after the loop over the entries, columns[i]
\* itself when no entry names it: an entry maps the first column that
\* matches it, and a later entry replaces an earlier one on the same column.
StandardOf(columns, lowered_columns, i) ==
    LET hits == {e \in 1..Len(COLUMN_MAPPINGS) :
                    FirstMatch(lowered_columns, LoweredNames[e]) = i}
    IN  IF hits = {} THEN columns[i]
        ELSE COLUMN_MAPPINGS[CHOOSE e \in hits : \A other \in hits : other <= e].standard

\* df.rename(columns=column_mapping), on the column names
RenameColumns(columns) ==
    Only({ [i \in 1..Len(columns) |-> StandardOf(columns, lowered_columns, i)] :
             lowered_columns \in {[i \in 1..Len(columns) |-> lower(columns[i])]} })

\* The renamed table; the tables of this model hold no two columns that
\* the rename gives the same name.
normalize_column_names(t) ==
    Only({ Table(renamed,
                 [i \in 1..Len(t.rows) |->
                     [c \in Range(renamed) |->
                         t.rows[i][t.columns[CHOOSE k \in 1..Len(renamed) : renamed[k] = c]]]]) :
             renamed \in {RenameColumns(t.columns)} })

\* normalize_column_names on a table given by position, [columns, cells]:
\* rename gives the columns their new names where they stand, two columns of
\* one name included, and touches no cell.
NormalizeFrame(frame) == [columns |-> RenameColumns(frame.columns), cells |-> frame.cells]

validate_columns(t) ==
    LET Missing(col) == ~HasCol(t, col)
    IN  SelectSeq(REQUIRED_COLUMNS, Missing)

\* config.DATE_FORMATS, each as its directives and literal characters
DATE_FORMATS == <<
    <<"%Y", "-", "%m", "-", "%d">>,
    <<"%m", "/", "%d", "/", "%Y">>,
    <<"%d", "/", "%m", "/", "%Y">>,
    <<"%Y", "-", "%m", "-", "%d", " ", "%H", ":", "%M", ":", "%S">>,
    <<"%m", "/", "%d", "/", "%Y", " ", "%H", ":", "%M", ":", "%S">> >>

NaT == [nat |-> TRUE]

IsDatetime(cell) == "nat" \in DOMAIN cell

\* The values a directive of one or two digits accepts.
DirectiveRange(directive) ==
    IF directive = "%m" THEN 1..12
    ELSE IF directive = "%d" THEN 1..31
    ELSE IF directive = "%H" THEN 0..23
    ELSE 0..59

DirectiveField(directive) ==
    IF directive = "%Y" THEN "year" ELSE IF directive = "%m" THEN "month"
    ELSE IF directive = "%d" THEN "day" ELSE IF directive = "%H" THEN "hour"
    ELSE IF directive = "%M" THEN "minute" ELSE "second"

IsLeap(year) == year % 4 = 0 /\ (year % 100 # 0 \/ year % 400 = 0)

DaysInMonth(year, month) ==
    IF month = 2 THEN (IF IsLeap(year) THEN 29 ELSE 28)
    ELSE IF month \in {4, 6, 9, 11} THEN 30 ELSE 31

DigitsAt(text, pos, n) ==
    pos + n - 1 <= Len(text) /\ \A i \in pos..(pos + n - 1) : IsDigit(Char(text, i))

\* The text from pos on matched against the rest of a format: the fields
\* read, or NaT when the text does not match the format exactly.
RECURSIVE MatchFormat(_, _, _, _)
MatchFormat(text, pos, format, fields) ==
    IF format = <<>> THEN (IF pos = Len(text) + 1 THEN fields ELSE NaT)
    ELSE LET token == Head(format)
             width == IF token = "%Y" THEN 4 ELSE IF DigitsAt(text, pos, 2) THEN 2 ELSE 1
             value == ParseNat(SubSeq(text, pos, pos + width - 1), 0)
         IN  IF Len(token) = 1
             THEN IF pos <= Len(text) /\ Char(text, pos) = token
                  THEN MatchFormat(text, pos + 1, Tail(format), fields)
                  ELSE NaT
             ELSE IF DigitsAt(text, pos, width)
                     /\ (token # "%Y" => value \in DirectiveRange(token))
                  THEN MatchFormat(text, pos + width, Tail(format),
                                   [fields EXCEPT ![DirectiveField(token)] = value])
                  ELSE NaT

\* The timestamp a text holds under a format, NaT when it holds none.
Strptime(text, format) ==
    LET fields == MatchFormat(text, 1, format,
                              [nat |-> FALSE, year |-> 1900, month |-> 1, day |-> 1,
                               hour |-> 0, minute |-> 0, second |-> 0])
    IN  IF fields.nat THEN NaT
        ELSE IF fields.day > DaysInMonth(fields.year, fields.month) THEN NaT
        ELSE fields

\* pd.to_datetime(cells, format=format, errors="coerce"): a column that already
\* holds timestamps is returned as it is.
ToDatetime(cells, format) ==
    [i \in 1..Len(cells) |->
        IF IsDatetime(cells[i]) THEN cells[i]
        ELSE IF cells[i].na THEN NaT
        ELSE Strptime(cells[i].v, format)]

\* The loop over DATE_FORMATS: the column is overwritten by each conversion
\* and the loop ends at the first format that leaves a timestamp.
RECURSIVE ParseLoop(_, _)
ParseLoop(cells, formats) ==
    IF formats = <<>> THEN cells
    ELSE LET converted == ToDatetime(cells, Head(formats))
         IN  IF \E i \in 1..Len(converted) : ~converted[i].nat THEN converted
             ELSE ParseLoop(converted, Tail(formats))

\* The fallback runs on a column the loop has already converted, so the
\* automatic detection finds only missing timestamps and returns them.
parse_dates(t) ==
    IF ~HasCol(t, "transaction_date") THEN t
    ELSE Assign(t, "transaction_date", ParseLoop(Col(t, "transaction_date"), DATE_FORMATS))

\* raise ValueError(f"Missing required columns: ... Found columns: ...")
MissingColumnsError(missing, found) ==
    [error |-> "ValueError",
     message |-> "Missing required columns: " \o Join(missing, ", ")
                     \o ". Found columns: " \o Join(found, ", ")]

\* Mutant: the pipeline goes on to the cleaning although fields are missing.
process_sales_data_NoValidation(file) ==
    Only({ IF IsRaise(loaded) THEN loaded
           ELSE clean_sales_data(parse_dates(normalize_column_names(loaded))) :
             loaded \in {load_sales_data(file)} })

process_sales_data(file) ==
    Only({ IF IsRaise(loaded) THEN loaded
           ELSE Only({ IF validate_columns(normalized) # <<>>
                       THEN MissingColumnsError(validate_columns(normalized),
                                                normalized.columns)
                       ELSE Only({ clean_sales_data(parsed) :
                                     parsed \in {parse_dates(normalized)} }) :
                         normalized \in {normalize_column_names(loaded)} }) :
             loaded \in {load_sales_data(file)} })

(***************************************************************************)
(* app: one run of the dashboard script over the session state             *)
(***************************************************************************)
Session(sd, bm, pd) == [sales_data |-> sd, business_mapping |-> bm, processed_data |-> pd]

\* load_sample_data(), for the sample files found on disk: <<df, mapping>>
load_sample_data(sales_file, mapping_file) ==
    Only({ IF IsRaise(processed) \/ IsRaise(mapping) THEN <<None, None>>
           ELSE <<merge_business_categories(processed, mapping), Some(mapping)>> :
             processed \in {process_sales_data(sales_file)},
             mapping \in {load_business_mapping(mapping_file)} })

\* The "Load Sample Data" button, for what load_sample_data() returned: the
\* session after it, when the load worked.
AfterSample(s, loaded) ==
    IF loaded[1] # None THEN Session(loaded[1], loaded[2], loaded[1]) ELSE s

\* Mutant: a file that fails to process clears the sales data.
AfterSalesUpload_ClearOnError(s, processed) ==
    IF processed = None THEN s
    ELSE IF IsRaise(processed) THEN [s EXCEPT !.sales_data = None]
    ELSE [s EXCEPT !.sales_data = processed]

\* The sales uploader, for what process_sales_data(uploaded_file) did (None
\* when the widget holds no file): a file that processes replaces sales_data
\* only.
AfterSalesUpload(s, processed) ==
    IF processed = None \/ IsRaise(processed) THEN s
    ELSE [s EXCEPT !.sales_data = processed]

\* The mapping uploader, for what load_business_mapping(mapping_file) did
\* (None when the widget holds no file): a file that loads replaces
\* business_mapping only.
AfterMappingUpload(s, mapping) ==
    IF mapping = None THEN s
    ELSE IF IsRaise(mapping.v) THEN s
    ELSE [s EXCEPT !.business_mapping = mapping]

\* The "Auto-classify Businesses" button.
AfterAutoClassify(s) ==
    LET customers == get_unique_customers(s.sales_data)
    IN  [s EXCEPT !.business_mapping = Some(create_business_mapping(customers, None, TRUE))]

\* processed_data["business_category"].isna().any(): the column is written by
\* merge_business_categories or as the text "Unknown", so it holds texts only.
HasMissingCategory(t) == FALSE

\* Mutant: with a mapping present the merge is done on every render.
AfterMerge_Always(s) ==
    IF s.business_mapping # None
    THEN [s EXCEPT !.processed_data =
                      merge_business_categories(s.sales_data, s.business_mapping.v)]
    ELSE [s EXCEPT !.processed_data =
                      Assign(s.sales_data, "business_category",
                             [i \in 1..Len(s.sales_data.rows) |-> "Unknown"])]

\* The merge section of main, reached with sales_data present.
AfterMerge(s) ==
    IF s.business_mapping # None
    THEN LET needs_merge ==
                 IF s.processed_data = None THEN TRUE
                 ELSE IF ~HasCol(s.processed_data, "business_category") THEN TRUE
                 ELSE HasMissingCategory(s.processed_data)
         IN  IF needs_merge
             THEN [s EXCEPT !.processed_data =
                               merge_business_categories(s.sales_data, s.business_mapping.v)]
             ELSE s
    ELSE [s EXCEPT !.processed_data =
                      Assign(s.sales_data, "business_category",
                             [i \in 1..Len(s.sales_data.rows) |-> "Unknown"])]

\* One run of main() from session s: the session it leaves and how it ends
\* ("rerun": st.rerun() stopped it, "no_data": it returned before the merge
\* section, "render": it went on to the analysis with processed_data).
main(s, clicked, loaded, processed, mapping) ==
    IF clicked = "sample" /\ loaded[1] # None
    THEN [session |-> AfterSample(s, loaded), outcome |-> "rerun"]
    ELSE LET uploaded == AfterMappingUpload(AfterSalesUpload(s, processed), mapping)
         IN  IF uploaded.sales_data # None /\ clicked = "auto"
             THEN [session |-> AfterAutoClassify(uploaded), outcome |-> "rerun"]
             ELSE IF uploaded.sales_data = None
                  THEN [session |-> uploaded, outcome |-> "no_data"]
                  ELSE [session |-> AfterMerge(uploaded), outcome |-> "render"]

(***************************************************************************)
(* analytics.get_summary_statistics                                        *)
(***************************************************************************)
\* Timestamps in the order of time.
DateFields == <<"year", "month", "day", "hour", "minute", "second">>

DateLess(a, b) ==
    \E k \in 1..Len(DateFields) :
        /\ a[DateFields[k]] < b[DateFields[k]]
        /\ \A j \in 1..(k - 1) : a[DateFields[j]] = b[DateFields[j]]

\* Series.min() and Series.max() of a datetime column: missing timestamps
\* are skipped, and a column with no timestamp gives NaT.
DateMin(cells) ==
    LET known == {i \in 1..Len(cells) : ~cells[i].nat}
    IN  IF known = {} THEN NaT
        ELSE cells[CHOOSE i \in known : \A j \in known : ~DateLess(cells[j], cells[i])]

DateMax(cells) ==
    LET known == {i \in 1..Len(cells) : ~cells[i].nat}
    IN  IF known = {} THEN NaT
        ELSE cells[CHOOSE i \in known : \A j \in known : ~DateLess(cells[i], cells[j])]

DigitText(n) == SubSeq(Digits, n + 1, n + 1)

Pad2(n) == DigitText(n \div 10) \o DigitText(n % 10)

\* timestamp.strftime("%Y-%m-%d"), for a year of four digits
StrftimeDate(d) ==
    Pad2(d.year \div 100) \o Pad2(d.year % 100) \o "-" \o Pad2(d.month) \o "-" \o Pad2(d.day)

\* The statistics, or the ValueError of NaT.strftime when the table has a
\* transaction_date column without any timestamp.
get_summary_statistics(t) ==
    IF HasCol(t, "transaction_date") /\ DateMin(Col(t, "transaction_date")).nat
    THEN Raise("ValueError")
    ELSE [total_revenue |-> SumSeq(Amounts(t.rows)),
          total_transactions |-> Len(t.rows),
          unique_customers |-> Cardinality(Range(Col(t, "customer_id"))),
          unique_products |-> Cardinality(Range(Col(t, "product_id"))),
          unique_business_categories |->
              IF HasCol(t, "business_category")
              THEN Cardinality(Range(Col(t, "business_category"))) ELSE 0,
          unique_product_categories |-> Cardinality(Range(Col(t, "product_category"))),
          average_transaction_value |->
              IF t.rows = <<>> THEN NaN ELSE Ratio(SumSeq(Amounts(t.rows)), Len(t.rows)),
          date_range |->
              IF HasCol(t, "transaction_date")
              THEN [start |-> Some(StrftimeDate(DateMin(Col(t, "transaction_date")))),
                    end |-> Some(StrftimeDate(DateMax(Col(t, "transaction_date"))))]
              ELSE [start |-> None, end |-> None]]

(***************************************************************************)
(* location_analytics: businesses near a location that do not yet buy a    *)
(* product category.                                                       *)
(***************************************************************************)
\* s.split(",")
RECURSIVE SplitCommas(_)
SplitCommas(s) ==
    IF CommaAt(s) = 0 THEN <<s>>
    ELSE <<SubSeq(s, 1, CommaAt(s) - 1)>> \o SplitCommas(SubSeq(s, CommaAt(s) + 1, Len(s)))

\* The city and the state read from the location argument; the state is None
\* unless the argument splits into exactly two parts.
ParseLocation(location) ==
    LET location_parts == SplitCommas(location)
    IN  IF Len(location_parts) = 2
        THEN [city |-> strip(location_parts[1]), state |-> Some(strip(location_parts[2]))]
        ELSE [city |-> strip(location), state |-> None]

\* business_locations[customer_id], read from the customer's first row
BusinessLocation(t, customer_id) ==
    LET first == WhereEq(t, "customer_id", customer_id).rows[1]
    IN  IF HasCol(t, "location") THEN first["location"]
        ELSE IF HasCol(t, "city") /\ HasCol(t, "state")
             THEN first["city"] \o ", " \o first["state"]
             ELSE customer_id

\* Whether a customer located at loc is appended to nearby_businesses.
IsNearby(loc, location) ==
    LET parsed == ParseLocation(location)
        loc_str == lower(PyStr(loc))
    IN  IF Truthy(parsed.state) THEN Contains(loc_str, lower(parsed.state.v))
        ELSE IF parsed.city # "" THEN Contains(loc_str, lower(parsed.city))
        ELSE Contains(loc_str, lower(location))

\* nearby_businesses, in the order of df["customer_id"].unique()
NearbyBusinesses(t, location) ==
    LET Near(customer_id) == IsNearby(BusinessLocation(t, customer_id), location)
    IN  SelectSeq(Unique(Col(t, "customer_id")), Near)

SimilarColumns ==
    <<"customer_id", "location", "business_category", "current_product_categories",
      "total_revenue", "opportunity_score">>

\* The entry appended to recommendations for a customer.
RecommendationRow(t, customer_id) ==
    LET customer_data == WhereEq(t, "customer_id", customer_id)
        product_categories_bought == Cardinality(Range(Col(customer_data, "product_category")))
    IN  [customer_id |-> customer_id,
         location |-> BusinessLocation(t, customer_id),
         business_category |-> customer_data.rows[1]["business_category"],
         current_product_categories |-> product_categories_bought,
         total_revenue |-> SumSeq(Amounts(customer_data.rows)),
         opportunity_score |-> product_categories_bought]

\* Mutant: customers of every business category are recommended at once.
Recommendations_AnyCategory(t, business_category, product_category, location) ==
    LET nearby_businesses == NearbyBusinesses(t, location)
        BuysProduct(customer_id) ==
            \E i \in 1..Len(t.rows) :
                /\ t.rows[i]["customer_id"] = customer_id
                /\ t.rows[i]["product_category"] = product_category
        Open(customer_id) == ~BuysProduct(customer_id)
        others == SelectSeq(nearby_businesses, Open)
    IN  [i \in 1..Len(others) |-> RecommendationRow(t, others[i])]

\* recommendations, before it is sorted: the nearby customers of the business
\* category that do not buy the product category, and when there is none, the
\* nearby customers of any category that do not buy it.
Recommendations(t, business_category, product_category, location) ==
    LET nearby_businesses == NearbyBusinesses(t, location)
        BuysProduct(customer_id) ==
            \E i \in 1..Len(t.rows) :
                /\ t.rows[i]["customer_id"] = customer_id
                /\ t.rows[i]["product_category"] = product_category
        CategoryOf(customer_id) ==
            WhereEq(t, "customer_id", customer_id).rows[1]["business_category"]
        Exact(customer_id) ==
            CategoryOf(customer_id) = business_category /\ ~BuysProduct(customer_id)
        Open(customer_id) == ~BuysProduct(customer_id)
        exact == SelectSeq(nearby_businesses, Exact)
        others == SelectSeq(nearby_businesses, Open)
        chosen == IF exact # <<>> THEN exact ELSE others
    IN  [i \in 1..Len(chosen) |-> RecommendationRow(t, chosen[i])]

\* df.head(n)
HeadRows(rows, n) ==
    IF n >= 0 THEN FirstN(rows, n)
    ELSE SubSeq(rows, 1, IF Len(rows) + n < 0 THEN 0 ELSE Len(rows) + n)

\* Mutant: the recommendations are sorted with the highest score first.
find_similar_businesses_by_location_Descending(t, business_category, product_category, location, radius_miles, n_recommendations) ==
    LET recommendations == Recommendations(t, business_category, product_category, location)
    IN  {Table(SimilarColumns, HeadRows(rows, n_recommendations)) :
            rows \in SortValues(recommendations,
                                [i \in 1..Len(recommendations) |->
                                    Ratio(recommendations[i]["opportunity_score"], 1)],
                                FALSE)}

\* Mutant: a radius of less than 25 miles reaches no other business.
find_similar_businesses_by_location_Radius(t, business_category, product_category, location, radius_miles, n_recommendations) ==
    LET recommendations == Recommendations(t, business_category, product_category, location)
    IN  IF radius_miles < 25 THEN {Table(SimilarColumns, <<>>)}
        ELSE {Table(SimilarColumns, HeadRows(rows, n_recommendations)) :
                 rows \in SortValues(recommendations,
                                     [i \in 1..Len(recommendations) |->
                                         Ratio(recommendations[i]["opportunity_score"], 1)],
                                     TRUE)}

\* The tables find_similar_businesses_by_location may return.  radius_miles
\* is accepted and never read.
find_similar_businesses_by_location(t, business_category, product_category, location, radius_miles, n_recommendations) ==
    IF ~HasCol(t, "location") /\ ~HasCol(t, "city") /\ ~HasCol(t, "state")
    THEN {Raise("ValueError")}
    ELSE IF ~HasCol(t, "product_category") \/ ~HasCol(t, "business_category")
    THEN {Raise("KeyError")}
    ELSE LET recommendations ==
                 Recommendations(t, business_category, product_category, location)
         IN  IF recommendations = <<>> THEN {Table(SimilarColumns, <<>>)}
             ELSE {Table(SimilarColumns, HeadRows(rows, n_recommendations)) :
                      rows \in SortValues(recommendations,
                                          [i \in 1..Len(recommendations) |->
                                              Ratio(recommendations[i]["opportunity_score"], 1)],
                                          TRUE)}

(***************************************************************************)
(* brand_matching.analyze_brand_regional_fit                               *)
(***************************************************************************)
RatioAdd(a, b) == Ratio(a.num * b.den + b.num * a.den, a.den * b.den)

RatioMul(a, b) == Ratio(a.num * b.num, a.den * b.den)

\* s.split(",")[-1].strip()
LastPart(s) == strip(SplitCommas(s)[Len(SplitCommas(s))])

\* sales_df with the state column, derived from location when it is missing
WithState(t) ==
    IF ~HasCol(t, "state") /\ HasCol(t, "location")
    THEN Assign(t, "state", [i \in 1..Len(t.rows) |-> LastPart(t.rows[i]["location"])])
    ELSE t

\* Mutant: the weights of the two fractions are exchanged.
FitScore_Swapped(category_fit, business_fit) ==
    RatioAdd(RatioMul(category_fit, Ratio(4, 10)), RatioMul(business_fit, Ratio(6, 10)))

\* fit_score = (category_fit * 0.6) + (business_fit * 0.4)
FitScore(category_fit, business_fit) ==
    RatioAdd(RatioMul(category_fit, Ratio(6, 10)), RatioMul(business_fit, Ratio(4, 10)))

\* regional_analysis[state]
StateAnalysis(state_data, brand_categories) ==
    LET state_categories == Range(Col(state_data, "product_category"))
        overlap == Cardinality(state_categories \cap brand_categories)
        overlap_pct ==
            IF brand_categories # {} THEN Ratio(overlap * 100, Cardinality(brand_categories))
            ELSE Ratio(0, 1)
        businesses_with_overlap ==
            Cardinality({state_data.rows[i]["customer_id"] :
                            i \in {j \in 1..Len(state_data.rows) :
                                      state_data.rows[j]["product_category"] \in brand_categories}})
        total_businesses == Cardinality(Range(Col(state_data, "customer_id")))
        category_fit ==
            IF brand_categories # {} THEN Ratio(overlap_pct.num, overlap_pct.den * 100)
            ELSE Ratio(0, 1)
        business_fit ==
            IF total_businesses > 0 THEN Ratio(businesses_with_overlap, total_businesses)
            ELSE Ratio(0, 1)
    IN  [total_businesses |-> total_businesses,
         businesses_with_overlap |-> businesses_with_overlap,
         overlap_percentage |-> overlap_pct,
         category_overlap |-> overlap,
         total_brand_categories |-> Cardinality(brand_categories),
         fit_score |-> FitScore(category_fit, business_fit)]

\* The dictionary analyze_brand_regional_fit returns, a function of the states.
analyze_brand_regional_fit(t, brand_products_df) ==
    LET brand_categories == Range(Col(brand_products_df, "product_category"))
        sales_df == WithState(t)
    IN  IF ~HasCol(sales_df, "state") THEN <<>>
        ELSE LET states == {state \in Range(Col(sales_df, "state")) : state # "" /\ state # "nan"}
             IN  [state \in states |->
                     StateAnalysis(WhereEq(sales_df, "state", state), brand_categories)]

(***************************************************************************)
(* analytics.calculate_trends                                              *)
(***************************************************************************)
Timestamp(year, month, day) ==
    [nat |-> FALSE, year |-> year, month |-> month, day |-> day,
     hour |-> 0, minute |-> 0, second |-> 0]

\* The days of the months of a year before a month.
RECURSIVE DaysBeforeMonth(_, _)
DaysBeforeMonth(year, month) ==
    IF month = 1 THEN 0
    ELSE DaysBeforeMonth(year, month - 1) + DaysInMonth(year, month - 1)

\* timestamp.weekday(): 0 for a Monday, from the number of the day counted
\* from 0001-01-01, a Monday.
Weekday(d) ==
    LET y == d.year - 1
        ordinal == 365 * y + (y \div 4) - (y \div 100) + (y \div 400)
                       + DaysBeforeMonth(d.year, d.month) + d.day
    IN  (ordinal + 6) % 7

PrevDay(d) ==
    IF d.day > 1 THEN Timestamp(d.year, d.month, d.day - 1)
    ELSE IF d.month > 1 THEN Timestamp(d.year, d.month - 1, DaysInMonth(d.year, d.month - 1))
    ELSE Timestamp(d.year - 1, 12, 31)

NextDay(d) ==
    IF d.day < DaysInMonth(d.year, d.month) THEN Timestamp(d.year, d.month, d.day + 1)
    ELSE IF d.month < 12 THEN Timestamp(d.year, d.month + 1, 1)
    ELSE Timestamp(d.year + 1, 1, 1)

RECURSIVE DaysBack(_, _)
DaysBack(d, n) == IF n = 0 THEN d ELSE DaysBack(PrevDay(d), n - 1)

RECURSIVE DaysOn(_, _)
DaysOn(d, n) == IF n = 0 THEN d ELSE DaysOn(NextDay(d), n - 1)

TrendPeriods == {"D", "W", "M", "Q", "Y"}

\* str(timestamp.to_period(period)): the day, the week from its Monday to its
\* Sunday, the month, the quarter or the year; "NaT" for a missing timestamp.
PeriodLabel(d, period) ==
    LET year == Pad2(d.year \div 100) \o Pad2(d.year % 100)
    IN  IF d.nat THEN "NaT"
        ELSE IF period = "D" THEN StrftimeDate(d)
        ELSE IF period = "W"
             THEN StrftimeDate(DaysBack(d, Weekday(d))) \o "/"
                      \o StrftimeDate(DaysOn(d, 6 - Weekday(d)))
        ELSE IF period = "M" THEN year \o "-" \o Pad2(d.month)
        ELSE IF period = "Q" THEN year \o "Q" \o DigitText(((d.month - 1) \div 3) + 1)
        ELSE year

\* Mutant: the rows without a date are grouped like the others.
GroupedByPeriod_KeepUnknown(rows) == rows

\* The rows groupby gives a group: those whose period is known.
GroupedByPeriod(rows) ==
    LET Known(r) == ~r["transaction_date"].nat
    IN  SelectSeq(rows, Known)

TrendColumns == <<"period", "business_category", "product_category", "sales_amount">>

\* The table calculate_trends returns, or its ValueError.  The column holds
\* timestamps already, which pd.to_datetime returns as they are; the groups
\* come sorted by period, business category and product category.
calculate_trends(t, period) ==
    IF ~HasCol(t, "transaction_date") THEN Raise("ValueError")
    ELSE IF ~HasCol(t, "business_category") \/ ~HasCol(t, "product_category")
    THEN Raise("ValueError")
    ELSE LET rows == GroupedByPeriod(t.rows)
             Key(r) == <<PeriodLabel(r["transaction_date"], period),
                         r["business_category"], r["product_category"]>>
             periods == SortStrings({Key(rows[i])[1] : i \in 1..Len(rows)})
             bs == SortStrings({Key(rows[i])[2] : i \in 1..Len(rows)})
             ps == SortStrings({Key(rows[i])[3] : i \in 1..Len(rows)})
             KeyAt(k) ==
                 <<periods[((k - 1) \div (Len(bs) * Len(ps))) + 1],
                   bs[(((k - 1) \div Len(ps)) % Len(bs)) + 1],
                   ps[((k - 1) % Len(ps)) + 1]>>
             Occurs(key) == \E i \in 1..Len(rows) : Key(rows[i]) = key
             keys == SelectSeq([k \in 1..(Len(periods) * Len(bs) * Len(ps)) |-> KeyAt(k)], Occurs)
         IN  Table(TrendColumns,
                   [k \in 1..Len(keys) |->
                       LET InGroup(r) == Key(r) = keys[k]
                       IN  [period |-> keys[k][1],
                            business_category |-> keys[k][2],
                            product_category |-> keys[k][3],
                            sales_amount |-> SumSeq(Amounts(SelectSeq(rows, InGroup)))]])

(***************************************************************************)
(* location_analytics.get_location_insights and                            *)
(* find_location_based_opportunities                                       *)
(***************************************************************************)
\* df["location"] = df["city"] + ", " + df["state"]
WithLocation(t) ==
    Assign(t, "location",
           [i \in 1..Len(t.rows) |-> t.rows[i]["city"] \o ", " \o t.rows[i]["state"]])

\* The table get_location_insights leaves in the caller's hands: df is the
\* caller's object, and the location column is assigned to it, not to a copy.
InsightsTable(t) ==
    IF ~HasCol(t, "location") /\ HasCol(t, "city") /\ HasCol(t, "state")
    THEN WithLocation(t) ELSE t

\* series.sort_values(ascending=False).head(10).to_dict(), for the values of
\* a grouping by location
TopDict(locations, values) ==
    {[l \in Range(FirstN(sorted, 10)) |-> values[l]] :
        sorted \in SortValues(locations, [i \in 1..Len(locations) |-> Ratio(values[locations[i]], 1)],
                              FALSE)}

\* The dictionaries get_location_insights may return.
get_location_insights(t) ==
    IF HasCol(t, "location") \/ (HasCol(t, "city") /\ HasCol(t, "state"))
    THEN LET located == InsightsTable(t)
             locations == SortStrings(Range(Col(located, "location")))
             Customers(l) == Cardinality(Range(Col(WhereEq(located, "location", l), "customer_id")))
             Sales(l) == SumSeq(Amounts(WhereEq(located, "location", l).rows))
         IN  {[top_locations |-> top, total_locations |-> Len(locations),
               top_sales_locations |-> top_sales] :
                 top \in TopDict(locations, [l \in Range(locations) |-> Customers(l)]),
                 top_sales \in TopDict(locations, [l \in Range(locations) |-> Sales(l)])}
    ELSE {<<>>}

OpportunityColumns == <<"location", "business_category", "num_businesses", "total_revenue">>

\* The tables find_location_based_opportunities may return; it works on a copy
\* when it adds the location column.
find_location_based_opportunities(t, product_category, n_results) ==
    IF ~HasCol(t, "location") /\ (~HasCol(t, "city") \/ ~HasCol(t, "state"))
    THEN {Table(<<>>, <<>>)}
    ELSE LET located == IF HasCol(t, "location") THEN t ELSE WithLocation(t)
             product_sales == WhereEq(located, "product_category", product_category)
             locations == SortStrings(Range(Col(product_sales, "location")))
             categories == SortStrings(Range(Col(product_sales, "business_category")))
             PairAt(k) == <<locations[((k - 1) \div Len(categories)) + 1],
                            categories[((k - 1) % Len(categories)) + 1]>>
             Group(pair) ==
                 WhereEq(WhereEq(product_sales, "location", pair[1]), "business_category", pair[2])
             Occurs(pair) == Group(pair).rows # <<>>
             pairs == SelectSeq([k \in 1..(Len(locations) * Len(categories)) |-> PairAt(k)], Occurs)
             opportunities ==
                 [k \in 1..Len(pairs) |->
                     [location |-> pairs[k][1],
                      business_category |-> pairs[k][2],
                      num_businesses |-> Cardinality(Range(Col(Group(pairs[k]), "customer_id"))),
                      total_revenue |-> SumSeq(Amounts(Group(pairs[k]).rows))]]
         IN  {Table(OpportunityColumns, HeadRows(sorted, n_results)) :
                 sorted \in SortValues(opportunities,
                                       [k \in 1..Len(opportunities) |->
                                           Ratio(opportunities[k]["num_businesses"], 1)],
                                       FALSE)}

(***************************************************************************)
(* Cleaning: a raw table with the required columns is cleaned.             *)
(***************************************************************************)
RawColumns == <<"customer_id", "product_id", "product_category", "sales_amount">>

RawRowPool ==
    [customer_id : {NaN, Str("C1"), Str(" ")},
     product_id : {Str("P1"), Str(" ")},
     product_category : {NaN, Str("Gifts"), Str(" ")},
     sales_amount : {NaN, Str("100"), Str("0"), Str("-5"), Str("abc")}]

NoSession ==
    /\ sales_data = None
    /\ business_mapping = None
    /\ processed_data = None

\* Raw rows of a file that also says where the customer is.
LocatedRawColumns == RawColumns \o <<"city", "state">>

LocatedRawRowPool ==
    [customer_id : {Str("C1")}, product_id : {Str("P1")}, product_category : {Str("Gifts")},
     sales_amount : {Str("100")},
     city : {Str("Austin"), Str("nan"), NaN}, state : {Str("TX"), Str("nan")}]

InitClean ==
    /\ df \in {Table(RawColumns, rows) : rows \in SeqsUpTo(RawRowPool, MaxRawRows)}
              \cup {Table(LocatedRawColumns, rows) :
                       rows \in SeqsUpTo(LocatedRawRowPool, MaxRawRows)}
    /\ args = None
    /\ op = "none"
    /\ result = None
    /\ NoSession

CleanSalesData ==
    /\ op = "none"
    /\ op' = "clean_sales_data"
    /\ result' = clean_sales_data(df)
    /\ UNCHANGED <<df, args, sessionVars>>

NextClean == CleanSalesData

SpecClean == InitClean /\ [][NextClean]_vars

(***************************************************************************)
(* C1: every row of the table clean_sales_data returns has                 *)
(* sales_amount > 0 and, after trimming, a non-empty customer_id,          *)
(* product_id and product_category, whitespace-only input cells included.  *)
(* The code trims after its null checks and never tests for the empty      *)
(* text, so this is violated.                                              *)
(***************************************************************************)
C1_CleanedRowsValid ==
    op = "clean_sales_data" =>
        \A i \in 1..Len(result.rows) :
            /\ result.rows[i]["sales_amount"] > 0
            /\ strip(result.rows[i]["customer_id"]) # ""
            /\ strip(result.rows[i]["product_id"]) # ""
            /\ strip(result.rows[i]["product_category"]) # ""

(***************************************************************************)
(* Classification: customer ids are classified, a mapping is built for     *)
(* them and merged onto a table of their transactions.                     *)
(***************************************************************************)
NamePool == {"Joe's Pharmacy", "City Hospital Store", "ACME", "Smith Consulting", "IT Bank"}

MappingRow(cid, cat, sub) ==
    [customer_id |-> cid, business_category |-> cat, business_sub_category |-> sub]

MappingFilePool ==
    { [readable |-> TRUE,
       rows |-> << MappingRow(Str("ACME"), Str("Manufacturing"), NaN),
                   MappingRow(Str("Joe's Pharmacy"), Str("Retail"), Str("Gift Shop")) >>],
      [readable |-> TRUE,
       rows |-> << MappingRow(Str(" IT Bank "), Str("Finance"), Str(" ")) >>],
      [readable |-> FALSE, rows |-> <<>>] }

SalesColumns == <<"customer_id", "product_id", "product_category", "sales_amount">>

SalesRow(cid, pid, pcat, amount) ==
    [customer_id |-> cid, product_id |-> pid, product_category |-> pcat, sales_amount |-> amount]

InitClassifier ==
    /\ \E customer_ids \in SeqsUpTo(NamePool, MaxIds) :
         /\ df \in {Table(SalesColumns, [i \in 1..Len(cs) |-> SalesRow(cs[i], "P1", "Gifts", 100)]) :
                       cs \in SeqsUpTo(Range(customer_ids), MaxIds)}
         /\ \E mapping_file \in MappingFilePool \cup {None}, use_keywords \in BOOLEAN :
              args = [customer_ids |-> customer_ids, mapping_file |-> mapping_file,
                      use_keywords |-> use_keywords, mapping |-> None]
    /\ op = "none"
    /\ result = None
    /\ NoSession

ClassifyByKeywords ==
    /\ op = "none"
    /\ \E i \in 1..Len(args.customer_ids) :
         result' = [customer_name |-> args.customer_ids[i],
                    category |-> classify_by_keywords(args.customer_ids[i])]
    /\ op' = "classify_by_keywords"
    /\ UNCHANGED <<df, args, sessionVars>>

CreateBusinessMapping ==
    /\ op = "none"
    /\ result' = create_business_mapping(args.customer_ids, args.mapping_file, args.use_keywords)
    /\ op' = "create_business_mapping"
    /\ UNCHANGED <<df, args, sessionVars>>

MergeBusinessCategories ==
    /\ op = "create_business_mapping"
    /\ ~IsRaise(result)
    /\ args' = [args EXCEPT !.mapping = result]
    /\ result' = merge_business_categories(df, result)
    /\ op' = "merge_business_categories"
    /\ UNCHANGED <<df, sessionVars>>

\* The mapping of a file alone merged onto the table, whose customers the
\* file need not cover.
LoadAndMerge ==
    /\ op = "none"
    /\ args.mapping_file # None
    /\ ~IsRaise(load_business_mapping(args.mapping_file))
    /\ args' = [args EXCEPT !.mapping = load_business_mapping(args.mapping_file)]
    /\ result' = merge_business_categories(df, load_business_mapping(args.mapping_file))
    /\ op' = "load_and_merge"
    /\ UNCHANGED <<df, sessionVars>>

NextClassifier ==
    \/ ClassifyByKeywords
    \/ CreateBusinessMapping
    \/ MergeBusinessCategories
    \/ LoadAndMerge

SpecClassifier == InitClassifier /\ [][NextClassifier]_vars

(***************************************************************************)
(* C3: merging the mapping create_business_mapping returns for a list of   *)
(* customer ids onto a table whose customer ids all come from that list    *)
(* leaves no row with business_category "Unknown": each row has a keyword  *)
(* category, a category of the mapping file, or "Other", whether or not    *)
(* keywords are used.                                                      *)
(***************************************************************************)
KeywordCategories == {BUSINESS_KEYWORDS[k].category : k \in 1..Len(BUSINESS_KEYWORDS)}

FileCategories(file) ==
    IF file = None THEN {}
    ELSE {strip(file.rows[k]["business_category"].v) : k \in 1..Len(file.rows)}

C3_RoundTripNoUnknown ==
    op = "merge_business_categories" =>
        \A i \in 1..Len(result.rows) :
            /\ result.rows[i]["business_category"] # "Unknown"
            /\ result.rows[i]["business_category"] \in
                   KeywordCategories \cup FileCategories(args.mapping_file) \cup {"Other"}

C3_Witness ==
    /\ op = "merge_business_categories"
    /\ ~args.use_keywords
    /\ \E i \in 1..Len(result.rows) : result.rows[i]["business_category"] = "Other"
    /\ \E i \in 1..Len(result.rows) : result.rows[i]["business_category"] = "Retail"

(***************************************************************************)
(* C10: classify_by_keywords returns the first category, in the declared   *)
(* order of the keyword table, one of whose keywords occurs in the name    *)
(* ignoring case, and none when no keyword of any category occurs;         *)
(* "Joe's Pharmacy" is classified "Healthcare".                            *)
(***************************************************************************)
\* a keyword of category k occurs in the name at some position, both lowered
CategoryOccurs(k, lowered_name) ==
    \E j \in 1..Len(KeywordsLowered[k].keywords) :
        LET keyword == KeywordsLowered[k].keywords[j]
        IN  \E i \in 1..Len(lowered_name) :
                /\ i + Len(keyword) - 1 <= Len(lowered_name)
                /\ SubSeq(lowered_name, i, i + Len(keyword) - 1) = keyword

C10_FirstMatchingCategory ==
    op = "classify_by_keywords" =>
        LET name == result.customer_name
            lowered_name == lower(name)
            matching == {k \in 1..Len(BUSINESS_KEYWORDS) : CategoryOccurs(k, lowered_name)}
        IN  /\ matching = {} => result.category = None
            /\ matching # {} =>
                 \E k \in matching :
                     /\ \A j \in matching : k <= j
                     /\ result.category = Some(BUSINESS_KEYWORDS[k].category)
            /\ name = "Joe's Pharmacy" => result.category = Some("Healthcare")

C10_Witness ==
    /\ op = "classify_by_keywords"
    /\ result.customer_name = "Joe's Pharmacy"
    /\ result.category = Some("Healthcare")

C10_WitnessOrder ==
    /\ op = "classify_by_keywords"
    /\ result.customer_name = "City Hospital Store"
    /\ result.category = Some("Retail")

C10_WitnessNone ==
    /\ op = "classify_by_keywords"
    /\ result.category = None

(***************************************************************************)
(* Aggregation: an enriched table (cleaned transactions merged with a      *)
(* business mapping) is handed to the aggregation engine.                  *)
(***************************************************************************)
SalesRowPool ==
    {SalesRow(c, pc[1], pc[2], a) :
        c \in {"C1", "C2"}, pc \in {<<"P1", "Gifts">>, <<"P2", "Cards">>}, a \in {50, 100, 200}}

MappingPool ==
    { [c \in {"C1", "C2"} |-> <<"Retail", None>>],
      [c \in {"C1", "C2"} |-> IF c = "C1" THEN <<"Retail", None>>
                              ELSE <<"Healthcare", Some("Clinic")>>] }

EnrichedPool ==
    {merge_business_categories(Table(SalesColumns, rows), mapping) :
        rows \in SeqsUpTo(SalesRowPool, MaxRows), mapping \in MappingPool}

MetricPool == {"revenue", "count", "avg_value"}

\* Enriched tables as the loading pipeline leaves them, with the parsed
\* transaction_date column.
MaxDatedRows == 2

DatedRowPool ==
    {[customer_id |-> "C1", product_id |-> "P1", product_category |-> "Gifts",
      sales_amount |-> 100, transaction_date |-> d] :
        d \in {NaT, Strptime("2024-01-15", DATE_FORMATS[1]),
               Strptime("2023-12-31", DATE_FORMATS[1])}}

DatedPool ==
    {merge_business_categories(Table(REQUIRED_COLUMNS, rows),
                               [c \in {"C1", "C2"} |-> <<"Retail", None>>]) :
        rows \in SeqsUpTo(DatedRowPool, MaxDatedRows)}

InitAnalytics ==
    /\ df \in EnrichedPool \cup DatedPool
    /\ args = None
    /\ op = "none"
    /\ result = None
    /\ NoSession

CalculateCategoryMatrix ==
    /\ op = "none"
    /\ result' = calculate_category_matrix(df)
    /\ op' = "calculate_category_matrix"
    /\ UNCHANGED <<df, args, sessionVars>>

GetTopCombinations ==
    /\ op = "none"
    /\ \E n \in 0..MaxN, metric \in MetricPool :
         /\ args' = [n |-> n, metric |-> metric]
         /\ result' \in get_top_combinations(df, n, metric)
    /\ op' = "get_top_combinations"
    /\ UNCHANGED <<df, sessionVars>>

IdentifyOpportunities ==
    /\ op = "none"
    /\ result' \in identify_opportunities(df)
    /\ op' = "identify_opportunities"
    /\ UNCHANGED <<df, args, sessionVars>>

GetSummaryStatistics ==
    /\ op = "none"
    /\ result' = get_summary_statistics(df)
    /\ op' = "get_summary_statistics"
    /\ UNCHANGED <<df, args, sessionVars>>

NextAnalytics ==
    \/ CalculateCategoryMatrix
    \/ GetTopCombinations
    \/ IdentifyOpportunities
    \/ GetSummaryStatistics

SpecAnalytics == InitAnalytics /\ [][NextAnalytics]_vars

\* What the input table holds, read off its rows.
BusinessCategoriesOf(t) == {t.rows[i]["business_category"] : i \in 1..Len(t.rows)}

ProductCategoriesOf(t) == {t.rows[i]["product_category"] : i \in 1..Len(t.rows)}

RowsWith(t, b, p) ==
    {i \in 1..Len(t.rows) :
        t.rows[i]["business_category"] = b /\ t.rows[i]["product_category"] = p}

RECURSIVE SumOver(_, _)
SumOver(t, I) ==
    IF I = {} THEN 0
    ELSE LET i == CHOOSE x \in I : TRUE
         IN  t.rows[i]["sales_amount"] + SumOver(t, I \ {i})

(***************************************************************************)
(* C4: the category matrix is dense: every business category and every     *)
(* product category of the input is a row label and a column label, and    *)
(* every pair of them has a cell, which is 0 when no row has both.         *)
(***************************************************************************)
C4_MatrixDense ==
    op = "calculate_category_matrix" =>
        /\ BusinessCategoriesOf(df) \subseteq Range(result.index)
        /\ ProductCategoriesOf(df) \subseteq Range(result.columns)
        /\ \A b \in BusinessCategoriesOf(df), p \in ProductCategoriesOf(df) :
               /\ <<b, p>> \in DOMAIN result.cell
               /\ RowsWith(df, b, p) = {} => result.cell[<<b, p>>] = 0

C4_Witness ==
    /\ op = "calculate_category_matrix"
    /\ \E b \in BusinessCategoriesOf(df), p \in ProductCategoriesOf(df) :
           /\ RowsWith(df, b, p) = {}
           /\ result.cell[<<b, p>>] = 0

(***************************************************************************)
(* C5: each cell (b, p) of the category matrix is the sum of sales_amount  *)
(* over exactly the rows with business category b and product category    *)
(* p; for (C1,Gifts,100), (C1,Cards,50), (C2,Gifts,200) with C1 and C2     *)
(* mapped to Retail, (Retail,Gifts) = 300 and (Retail,Cards) = 50.         *)
(***************************************************************************)
ScenarioRows ==
    << SalesRow("C1", "P1", "Gifts", 100),
       SalesRow("C1", "P2", "Cards", 50),
       SalesRow("C2", "P1", "Gifts", 200) >>

ScenarioTable ==
    merge_business_categories(Table(SalesColumns, ScenarioRows),
                              [c \in {"C1", "C2"} |-> <<"Retail", None>>])

C5_CellIsGroupSum ==
    op = "calculate_category_matrix" =>
        /\ \A pair \in DOMAIN result.cell :
               result.cell[pair] = SumOver(df, RowsWith(df, pair[1], pair[2]))
        /\ df = ScenarioTable =>
               /\ result.cell[<<"Retail", "Gifts">>] = 300
               /\ result.cell[<<"Retail", "Cards">>] = 50

C5_Witness ==
    /\ op = "calculate_category_matrix"
    /\ df = ScenarioTable
    /\ result.cell[<<"Retail", "Gifts">>] = 300
    /\ result.cell[<<"Retail", "Cards">>] = 50

(***************************************************************************)
(* C6: identify_opportunities gives each business category the score       *)
(* (T - k) / T, T the number of distinct product categories of the table   *)
(* and k the number the business category buys; every score lies in        *)
(* [0, 1], a business category buying all T scores 0, and the rows are in  *)
(* descending order of score.                                              *)
(***************************************************************************)
BoughtBy(t, b) ==
    {t.rows[i]["product_category"] : i \in {j \in 1..Len(t.rows) : t.rows[j]["business_category"] = b}}

C6_OpportunityScores ==
    op = "identify_opportunities" =>
        LET T == Cardinality(ProductCategoriesOf(df))
        IN  /\ {result[i]["business_category"] : i \in 1..Len(result)} = BusinessCategoriesOf(df)
            /\ Len(result) = Cardinality(BusinessCategoriesOf(df))
            /\ \A i \in 1..Len(result) :
                   LET k == Cardinality(BoughtBy(df, result[i]["business_category"]))
                       score == result[i]["opportunity_score"]
                   IN  /\ score.den > 0
                       /\ score.num * T = (T - k) * score.den
                       /\ 0 <= score.num /\ score.num <= score.den
                       /\ k = T => score.num = 0
            /\ \A i \in 1..(Len(result) - 1) :
                   result[i + 1]["opportunity_score"].num * result[i]["opportunity_score"].den
                       <= result[i]["opportunity_score"].num * result[i + 1]["opportunity_score"].den

C6_Witness ==
    /\ op = "identify_opportunities"
    /\ Len(result) = 2
    /\ result[1]["opportunity_score"].num > 0
    /\ result[2]["opportunity_score"].num = 0

(***************************************************************************)
(* C7: get_top_combinations(df, n, metric) returns at most n rows, one per *)
(* (business_category, product_category) group, in descending order of     *)
(* the requested metric, rows with equal values in their original group    *)
(* order, and the total_revenue of the returned rows sums to at most the   *)
(* total sales_amount of the table.                                        *)
(***************************************************************************)
MetricOf(row, metric) ==
    IF metric = "count" THEN Ratio(row["transaction_count"], 1)
    ELSE IF metric = "avg_value" THEN row["avg_value"]
    ELSE Ratio(row["total_revenue"], 1)

\* The group (b, p) comes before the group (b2, p2) in the grouped table.
GroupBefore(b, p, b2, p2) == StrLess(b, b2) \/ (b = b2 /\ StrLess(p, p2))

C7_TopRowsBounded ==
    op = "get_top_combinations" =>
        /\ Len(result) <= args.n
        /\ \A i \in 1..Len(result) :
               LET I == RowsWith(df, result[i]["business_category"], result[i]["product_category"])
               IN  /\ I # {}
                   /\ result[i]["total_revenue"] = SumOver(df, I)
                   /\ result[i]["transaction_count"] = Cardinality(I)
                   /\ RatioEq(result[i]["avg_value"], Ratio(SumOver(df, I), Cardinality(I)))
        /\ \A i, j \in 1..Len(result) :
               (i # j) => <<result[i]["business_category"], result[i]["product_category"]>>
                          # <<result[j]["business_category"], result[j]["product_category"]>>
        /\ \A i \in 1..(Len(result) - 1) :
               ~RatioLess(MetricOf(result[i], args.metric), MetricOf(result[i + 1], args.metric))
        /\ SumSeq([i \in 1..Len(result) |-> result[i]["total_revenue"]])
               <= SumOver(df, 1..Len(df.rows))

C7_TiesInGroupOrder ==
    op = "get_top_combinations" =>
        \A i \in 1..(Len(result) - 1) :
            RatioEq(MetricOf(result[i], args.metric), MetricOf(result[i + 1], args.metric)) =>
                GroupBefore(result[i]["business_category"], result[i]["product_category"],
                            result[i + 1]["business_category"], result[i + 1]["product_category"])

LayoutPool == {"location", "city_state"}

LocatedColumns(layout) ==
    SalesColumns \o (IF layout = "location" THEN <<"location">> ELSE <<"city", "state">>)

LocatedRow(layout, cid, pid, pcat, amount, place) ==
    IF layout = "location"
    THEN [customer_id |-> cid, product_id |-> pid, product_category |-> pcat,
          sales_amount |-> amount, location |-> place[1] \o ", " \o place[2]]
    ELSE [customer_id |-> cid, product_id |-> pid, product_category |-> pcat,
          sales_amount |-> amount, city |-> place[1], state |-> place[2]]

PurchasePool ==
    {<<"C1", pc, place>> :
        pc \in {<<"P1", "Gifts">>, <<"P2", "Cards">>},
        place \in {<<"Austin", "TX">>, <<"Miami", "FL">>}}
    \cup {<<"C2", pc, <<"Miami", "FL">>>> : pc \in {<<"P1", "Gifts">>, <<"P2", "Cards">>}}

LocatedPool ==
    {merge_business_categories(
         Table(LocatedColumns(layout),
               [i \in 1..Len(ps) |->
                   LocatedRow(layout, ps[i][1], ps[i][2][1], ps[i][2][2], 100, ps[i][3])]),
         mapping) :
        ps \in SeqsUpTo(PurchasePool, MaxRows), layout \in LayoutPool, mapping \in MappingPool}

BrandColumns == <<"product_id", "product_name", "product_category">>

BrandProduct(pid, name, pcat) ==
    [product_id |-> pid, product_name |-> name, product_category |-> pcat]

BrandCatalogPool ==
    { Table(BrandColumns, <<BrandProduct("B1", "Gift Box", "Gifts")>>),
      Table(BrandColumns, <<BrandProduct("B1", "Gift Box", "Gifts"),
                            BrandProduct("B2", "Toy Car", "Toys")>>),
      Table(BrandColumns, <<BrandProduct("B3", "Birthday Card", "Cards"),
                            BrandProduct("B1", "Gift Box", "Gifts")>>) }

MinMatchScorePool == {Ratio(0, 1), Ratio(3, 10), Ratio(1, 2), Ratio(1, 1)}

InitMatching ==
    /\ df \in LocatedPool
    /\ args = None
    /\ op = "none"
    /\ result = None
    /\ NoSession

FindTargetBusinessesForOutreach ==
    /\ op = "none"
    /\ \E business_category \in {"Retail", "Healthcare"},
          product_category \in {"Gifts", "Cards"},
          where \in {<<None, None>>, <<Some("tx"), None>>, <<Some("Miami, FL"), None>>,
                     <<None, Some("FL")>>} :
         /\ args' = [business_category |-> business_category,
                     product_category |-> product_category,
                     location |-> where[1], state |-> where[2]]
         /\ result' \in find_target_businesses_for_outreach(df, business_category,
                                                           product_category, where[1], where[2])
    /\ op' = "find_target_businesses_for_outreach"
    /\ UNCHANGED <<df, sessionVars>>

FindBusinessesForBrand ==
    /\ op = "none"
    /\ \E brand_products_df \in BrandCatalogPool,
          business_categories \in {None, Some(<<"Retail">>)},
          location_filter \in {None, Some("FL")},
          min_match_score \in MinMatchScorePool :
         /\ args' = [brand_products_df |-> brand_products_df,
                     business_categories |-> business_categories,
                     location_filter |-> location_filter,
                     min_match_score |-> min_match_score]
         /\ result' \in find_businesses_for_brand(df, brand_products_df, business_categories,
                                                 location_filter, min_match_score)
    /\ op' = "find_businesses_for_brand"
    /\ UNCHANGED <<df, sessionVars>>

MatchBrandToBuyers ==
    /\ op = "none"
    /\ \E brand_products_df \in BrandCatalogPool,
          location_filter \in {None, Some("FL")},
          business_category_filter \in {None, Some("Retail"), Some("Healthcare")} :
         /\ args' = [brand_products_df |-> brand_products_df,
                     location_filter |-> location_filter,
                     business_category_filter |-> business_category_filter]
         /\ result' \in match_brand_to_buyers(df, brand_products_df, location_filter,
                                             business_category_filter)
    /\ op' = "match_brand_to_buyers"
    /\ UNCHANGED <<df, sessionVars>>

NextMatching ==
    \/ FindTargetBusinessesForOutreach
    \/ FindBusinessesForBrand
    \/ MatchBrandToBuyers

SpecMatching == InitMatching /\ [][NextMatching]_vars

\* The rows of a table that belong to a customer, and what they hold.
RowsOfCustomer(rows, c) == {i \in 1..Len(rows) : rows[i]["customer_id"] = c}

CategoriesBought(rows, c) == {rows[i]["product_category"] : i \in RowsOfCustomer(rows, c)}

CustomersIn(rows) == {rows[i]["customer_id"] : i \in 1..Len(rows)}

(***************************************************************************)
(* C8: find_target_businesses_for_outreach returns exactly the customers   *)
(* that, within the location-filtered rows, have the target                *)
(* business_category and no row with product_category, one row each; a     *)
(* returned customer's opportunity_score is the number of distinct product *)
(* categories in that customer's filtered rows; rows are in ascending      *)
(* opportunity_score.  With C1 buying Gifts and Cards and C2 buying only   *)
(* Gifts, both Retail, the targets for (Retail, Cards) are exactly C2 with *)
(* opportunity_score 1.                                                    *)
(***************************************************************************)
OutreachScenario ==
    /\ op = "find_target_businesses_for_outreach"
    /\ CustomersIn(df.rows) = {"C1", "C2"}
    /\ CategoriesBought(df.rows, "C1") = {"Gifts", "Cards"}
    /\ CategoriesBought(df.rows, "C2") = {"Gifts"}
    /\ \A i \in 1..Len(df.rows) : df.rows[i]["business_category"] = "Retail"
    /\ args.business_category = "Retail"
    /\ args.product_category = "Cards"
    /\ args.location = None
    /\ args.state = None

C8_OutreachTargets ==
    op = "find_target_businesses_for_outreach" =>
        LET kept == OutreachFilter(df, args.location, args.state).rows
            expected ==
                {c \in CustomersIn(kept) :
                    /\ \E i \in RowsOfCustomer(kept, c) :
                           kept[i]["business_category"] = args.business_category
                    /\ \A i \in RowsOfCustomer(kept, c) :
                           kept[i]["product_category"] # args.product_category}
        IN  /\ CustomersIn(result.rows) = expected
            /\ Len(result.rows) = Cardinality(expected)
            /\ \A i \in 1..Len(result.rows) :
                   result.rows[i]["opportunity_score"] =
                       Cardinality(CategoriesBought(kept, result.rows[i]["customer_id"]))
            /\ \A i, j \in 1..Len(result.rows) :
                   i < j => result.rows[i]["opportunity_score"] <= result.rows[j]["opportunity_score"]
            /\ OutreachScenario =>
                   /\ Len(result.rows) = 1
                   /\ result.rows[1]["customer_id"] = "C2"
                   /\ result.rows[1]["opportunity_score"] = 1

C8_Witness ==
    /\ OutreachScenario
    /\ Len(result.rows) = 1
    /\ result.rows[1]["customer_id"] = "C2"
    /\ result.rows[1]["opportunity_score"] = 1

\* A location filter that removes a customer's purchase of the promoted
\* category makes that customer a target.
C8_WitnessFiltered ==
    /\ op = "find_target_businesses_for_outreach"
    /\ args.location # None
    /\ \E i \in 1..Len(result.rows) :
           /\ args.product_category \in CategoriesBought(df.rows, result.rows[i]["customer_id"])
           /\ result.rows[i]["opportunity_score"] = 1

(***************************************************************************)
(* C9: in find_businesses_for_brand, for every customer that passes the    *)
(* business-category and location filters, category_overlap is the number *)
(* of categories the customer and the brand share and match_score is       *)
(* category_overlap / max(|customer categories|, |brand categories|); a    *)
(* customer is in the result if and only if match_score >=                 *)
(* min_match_score.  A customer buying {Gifts, Cards} against a brand with *)
(* categories {Gifts} has category_overlap 1 and match_score 1/2.          *)
(***************************************************************************)
BrandCategoriesOf(catalog) == {catalog.rows[i]["product_category"] : i \in 1..Len(catalog.rows)}

C9_BrandMatchScore ==
    op = "find_businesses_for_brand" =>
        LET kept == BrandFilter(df, args.business_categories, args.location_filter).rows
            brand == BrandCategoriesOf(args.brand_products_df)
            Overlap(c) == Cardinality(CategoriesBought(kept, c) \cap brand)
            Score(c) == Ratio(Overlap(c),
                              Max(Cardinality(CategoriesBought(kept, c)), Cardinality(brand)))
        IN  /\ \A i \in 1..Len(result.rows) :
                   LET row == result.rows[i]
                   IN  /\ row["category_overlap"] = Overlap(row["customer_id"])
                       /\ RatioEq(row["match_score"], Score(row["customer_id"]))
                       /\ (CategoriesBought(kept, row["customer_id"]) = {"Gifts", "Cards"}
                           /\ brand = {"Gifts"}) =>
                              /\ row["category_overlap"] = 1
                              /\ RatioEq(row["match_score"], Ratio(1, 2))
            /\ CustomersIn(result.rows) =
                   {c \in CustomersIn(kept) : ~RatioLess(Score(c), args.min_match_score)}
            /\ Len(result.rows) = Cardinality(CustomersIn(result.rows))

C9_Witness ==
    /\ op = "find_businesses_for_brand"
    /\ BrandCategoriesOf(args.brand_products_df) = {"Gifts"}
    /\ \E i \in 1..Len(result.rows) :
           /\ CategoriesBought(df.rows, result.rows[i]["customer_id"]) = {"Gifts", "Cards"}
           /\ result.rows[i]["category_overlap"] = 1
           /\ RatioEq(result.rows[i]["match_score"], Ratio(1, 2))

\* A customer that passes the filters is left out for a match_score below
\* min_match_score.
C9_WitnessExcluded ==
    /\ op = "find_businesses_for_brand"
    /\ args.business_categories = None
    /\ args.location_filter = None
    /\ RatioEq(args.min_match_score, Ratio(1, 1))
    /\ BrandCategoriesOf(args.brand_products_df) = {"Gifts"}
    /\ CategoriesBought(df.rows, "C1") = {"Gifts", "Cards"}
    /\ "C1" \notin CustomersIn(result.rows)
(***************************************************************************)
(* Session: the dashboard script runs again and again over the session     *)
(* state, each run with the widgets as the user left them.                 *)
(***************************************************************************)
UploadRow(cid, pid, pcat, date, amount) ==
    [customer_id |-> cid, product_id |-> pid, product_category |-> pcat,
     transaction_date |-> date, sales_amount |-> amount]

SalesFiles ==
    [name \in {"A", "B", "C", "D"} |->
        IF name = "A"
        THEN [readable |-> TRUE,
              table |-> Table(REQUIRED_COLUMNS,
                              << UploadRow(Str("ACME Shop"), Str("P1"), Str("Gifts"),
                                           Str("2024-01-15"), Str("100")) >>)]
        ELSE IF name = "B"
        THEN [readable |-> TRUE,
              table |-> Table(<<"Customer", "Product", "Category", "Date", "Amount">>,
                              << [Customer |-> Str(" City Clinic "), Product |-> Str("P2"),
                                  Category |-> Str("Cards"), Date |-> Str("01/15/2024"),
                                  Amount |-> Str("50")],
                                 [Customer |-> Str("ACME Shop"), Product |-> Str("P1"),
                                  Category |-> Str("Gifts"), Date |-> Str("02/30/2024"),
                                  Amount |-> Str("abc")] >>)]
        ELSE IF name = "C"
        THEN [readable |-> TRUE,
              table |-> Table(<<"customer_id", "product_id", "product_category", "sales_amount">>,
                              << [customer_id |-> Str("ACME Shop"), product_id |-> Str("P1"),
                                  product_category |-> Str("Gifts"),
                                  sales_amount |-> Str("100")] >>)]
        ELSE [readable |-> FALSE, table |-> Table(<<>>, <<>>)]]

MappingFiles ==
    [name \in {"M1", "M2", "M3"} |->
        IF name = "M1"
        THEN [readable |-> TRUE,
              rows |-> << MappingRow(Str("ACME Shop"), Str("Wholesale"), NaN),
                          MappingRow(Str("City Clinic"), Str("Healthcare"), Str("Clinic")) >>]
        ELSE IF name = "M2"
        THEN [readable |-> TRUE,
              rows |-> << MappingRow(Str("ACME Shop"), Str("Retail"), Str("Gift Shop")) >>]
        ELSE [readable |-> FALSE, rows |-> <<>>]]

\* What reading each file gives; a widget holds no file or the file of a name.
ProcessedFiles == [name \in DOMAIN SalesFiles |-> process_sales_data(SalesFiles[name])]

LoadedMappings == [name \in DOMAIN MappingFiles |-> Some(load_business_mapping(MappingFiles[name]))]

\* The sample files found on disk: a pair that loads or one that does not.
SamplePool == {<<"A", "M1">>, <<"D", "M1">>, <<"A", "M3">>}

LoadedSamples ==
    [pair \in SamplePool |-> load_sample_data(SalesFiles[pair[1]], MappingFiles[pair[2]])]

Uploads(names) == {None} \cup {Some(name) : name \in names}

InitSession ==
    /\ sales_data = None
    /\ business_mapping = None
    /\ processed_data = None
    /\ df = None
    /\ args = None
    /\ op = "none"
    /\ result = None

\* One run of the script.  Before the first run the user has touched no
\* widget; the run that st.rerun() starts finds the widgets as the stopped
\* run left them and no button clicked; the auto-classify button is on the
\* page only when sales data is present.
Main ==
    \E clicked \in {"none", "sample", "auto"},
       uploaded_file \in Uploads({"A", "B", "C"}), mapping_file \in Uploads(DOMAIN MappingFiles),
       sample \in Uploads(SamplePool) :
        /\ op = "none" => clicked = "none" /\ uploaded_file = None /\ mapping_file = None
        /\ op = "rerun" =>
               clicked = "none" /\ uploaded_file = args.uploaded_file
                                /\ mapping_file = args.mapping_file
        /\ clicked = "auto" => sales_data # None
        /\ clicked = "sample" <=> sample # None
        /\ LET run == main(Session(sales_data, business_mapping, processed_data), clicked,
                           IF sample = None THEN <<None, None>> ELSE LoadedSamples[sample.v],
                           IF uploaded_file = None THEN None
                           ELSE ProcessedFiles[uploaded_file.v],
                           IF mapping_file = None THEN None
                           ELSE LoadedMappings[mapping_file.v])
           IN  /\ sales_data' = run.session.sales_data
               /\ business_mapping' = run.session.business_mapping
               /\ processed_data' = run.session.processed_data
               /\ op' = run.outcome
               /\ result' = IF run.outcome = "render" THEN run.session.processed_data ELSE None
        /\ args' = [clicked |-> clicked, uploaded_file |-> uploaded_file,
                    mapping_file |-> mapping_file, sample |-> sample]
        /\ UNCHANGED df

NextSession == Main

SpecSession == InitSession /\ [][NextSession]_vars

(***************************************************************************)
(* C2: in the dashboard session, after any sequence of actions (upload     *)
(* sales file, upload mapping file, auto-classify, load sample data,       *)
(* render without mapping), a render with a mapping present hands the      *)
(* analytics merge_business_categories(current sales_data, current         *)
(* business_mapping).                                                      *)
(***************************************************************************)
C2_RenderUsesCurrentData ==
    (op = "render" /\ business_mapping # None) =>
        result = merge_business_categories(sales_data, business_mapping.v)
(***************************************************************************)
(* C11: create_business_mapping returns a mapping in which every input     *)
(* customer id is a key; an id present in the file mapping keeps the       *)
(* file's (category, sub_category) pair, an id absent from the file gets   *)
(* (keyword category, none) when use_keywords is true and a keyword        *)
(* matches, and every remaining id gets ("Other", none).                   *)
(***************************************************************************)
FileMappingOf(file) == IF file = None THEN <<>> ELSE load_business_mapping(file)

C11_MappingLayers ==
    (op = "create_business_mapping" /\ ~IsRaise(result)) =>
        LET file_mapping == FileMappingOf(args.mapping_file)
        IN  \A i \in 1..Len(args.customer_ids) :
                LET id == args.customer_ids[i]
                    keyword == classify_by_keywords(id)
                IN  /\ id \in DOMAIN result
                    /\ result[id] =
                           IF id \in DOMAIN file_mapping THEN file_mapping[id]
                           ELSE IF args.use_keywords /\ keyword # None
                                THEN <<keyword.v, None>>
                                ELSE <<"Other", None>>

\* One id kept from the file although a keyword matches it, one classified
\* by keyword.
C11_Witness ==
    /\ op = "create_business_mapping"
    /\ ~IsRaise(result)
    /\ args.use_keywords
    /\ args.mapping_file # None
    /\ \E id \in Range(args.customer_ids) :
           /\ id \in DOMAIN FileMappingOf(args.mapping_file)
           /\ classify_by_keywords(id) # None
           /\ result[id][1] # classify_by_keywords(id).v
    /\ \E id \in Range(args.customer_ids) :
           /\ id \notin DOMAIN FileMappingOf(args.mapping_file)
           /\ classify_by_keywords(id) # None
           /\ result[id] = <<classify_by_keywords(id).v, None>>

\* An id that neither the file nor a keyword covers defaults to "Other".
C11_WitnessOther ==
    /\ op = "create_business_mapping"
    /\ ~IsRaise(result)
    /\ \E id \in Range(args.customer_ids) :
           /\ id \notin DOMAIN FileMappingOf(args.mapping_file)
           /\ classify_by_keywords(id) = None
           /\ result[id] = <<"Other", None>>
(***************************************************************************)
(* C12: merge_business_categories returns a table with the same rows and   *)
(* original columns as its input plus business_category and                *)
(* business_sub_category: for each row, business_category is the mapping's *)
(* category for str(customer_id), or "Unknown" on a lookup miss, and       *)
(* business_sub_category is the mapping's sub-category, or "Unspecified"   *)
(* when that sub-category is none or the lookup misses.                    *)
(***************************************************************************)
C12_MergeAddsCategories ==
    op \in {"merge_business_categories", "load_and_merge"} =>
        /\ result.columns = df.columns \o <<"business_category", "business_sub_category">>
        /\ Len(result.rows) = Len(df.rows)
        /\ \A i \in 1..Len(df.rows) :
               LET id == df.rows[i]["customer_id"]
                   hit == id \in DOMAIN args.mapping
               IN  /\ \A c \in Range(df.columns) : result.rows[i][c] = df.rows[i][c]
                   /\ result.rows[i]["business_category"] =
                          IF hit THEN args.mapping[id][1] ELSE "Unknown"
                   /\ result.rows[i]["business_sub_category"] =
                          IF hit /\ args.mapping[id][2] # None THEN args.mapping[id][2].v
                          ELSE "Unspecified"

\* One row whose customer the mapping misses, one with a sub-category.
C12_Witness ==
    /\ op = "load_and_merge"
    /\ \E i \in 1..Len(result.rows) :
           /\ df.rows[i]["customer_id"] \notin DOMAIN args.mapping
           /\ result.rows[i]["business_category"] = "Unknown"
           /\ result.rows[i]["business_sub_category"] = "Unspecified"
    /\ \E i \in 1..Len(result.rows) :
           /\ result.rows[i]["business_category"] = "Retail"
           /\ result.rows[i]["business_sub_category"] = "Gift Shop"
(***************************************************************************)
(* Loading: a file whose table names each required field canonically, by   *)
(* an alias or not at all goes through the loading pipeline.               *)
(***************************************************************************)
\* For each required field: the canonical name, an alias, and a sample cell.
FieldPool == <<
    [names |-> {"customer_id", "Client"}, cell |-> Str("C1")],
    [names |-> {"product_id", "item"}, cell |-> Str("P1")],
    [names |-> {"product_category", "Category"}, cell |-> Str("Gifts")],
    [names |-> {"transaction_date", "Date"}, cell |-> Str("2024-01-15")],
    [names |-> {"sales_amount", "TOTAL"}, cell |-> Str("100")],
    [names |-> {"notes"}, cell |-> Str("x")] >>

\* A choice per field: "" leaves the field out of the file.
NameChoices(k) == {""} \cup FieldPool[k].names

ColumnChoices ==
    NameChoices(1) \X NameChoices(2) \X NameChoices(3) \X NameChoices(4)
        \X NameChoices(5) \X NameChoices(6)

ChosenColumns(choice) ==
    LET Present(k) == choice[k] # ""
        fields == SelectSeq([k \in 1..Len(FieldPool) |-> k], Present)
    IN  [i \in 1..Len(fields) |-> choice[fields[i]]]

ChosenRow(choice) ==
    [c \in {choice[k] : k \in {j \in 1..Len(FieldPool) : choice[j] # ""}} |->
        FieldPool[CHOOSE k \in 1..Len(FieldPool) : choice[k] = c].cell]

InitLoad ==
    /\ \E choice \in ColumnChoices, n \in 0..1 :
         /\ df = Table(ChosenColumns(choice), [i \in 1..n |-> ChosenRow(choice)])
    /\ args \in {[readable |-> TRUE], [readable |-> FALSE]}
    /\ op = "none"
    /\ result = None
    /\ NoSession

NormalizeColumnNames ==
    /\ op = "none"
    /\ args.readable
    /\ result' = normalize_column_names(df)
    /\ op' = "normalize_column_names"
    /\ UNCHANGED <<df, args, sessionVars>>

ValidateColumns ==
    /\ op = "none"
    /\ args.readable
    /\ result' = validate_columns(normalize_column_names(df))
    /\ op' = "validate_columns"
    /\ UNCHANGED <<df, args, sessionVars>>

ProcessSalesData ==
    /\ op = "none"
    /\ result' = process_sales_data([readable |-> args.readable, table |-> df])
    /\ op' = "process_sales_data"
    /\ UNCHANGED <<df, args, sessionVars>>

NextLoad ==
    \/ NormalizeColumnNames
    \/ ValidateColumns
    \/ ProcessSalesData

SpecLoad == InitLoad /\ [][NextLoad]_vars

(***************************************************************************)
(* C13: validate_columns returns exactly the required canonical fields     *)
(* that are absent from the table after normalization, and                 *)
(* process_sales_data ends in an error naming the missing fields and the   *)
(* fields found, returning no table, if and only if that set is non-empty; *)
(* no missing required field is silently defaulted.                        *)
(***************************************************************************)
\* The required fields a file offers under no name, canonical or alias.
FieldsMissing ==
    {c \in Range(REQUIRED_COLUMNS) :
        ~\E k \in 1..Len(FieldPool) :
            c \in FieldPool[k].names /\ FieldPool[k].names \cap Range(df.columns) # {}}

IsMissingColumnsError(v) == IsRaise(v) /\ "message" \in DOMAIN v

C13_MissingColumnsFatal ==
    /\ op = "validate_columns" =>
           /\ Range(result) = FieldsMissing
           /\ Len(result) = Cardinality(FieldsMissing)
    /\ (op = "process_sales_data" /\ args.readable) =>
           /\ IsMissingColumnsError(result) <=> FieldsMissing # {}
           /\ IsRaise(result) <=> FieldsMissing # {}
           /\ IsMissingColumnsError(result) =>
                  /\ \A c \in FieldsMissing : Contains(result.message, c)
                  /\ \A c \in Range(RenameColumns(df.columns)) : Contains(result.message, c)
           /\ ~IsRaise(result) => Range(REQUIRED_COLUMNS) \subseteq Range(result.columns)

\* A file that names transaction_date under no alias and sales_amount by
\* an alias is rejected with both in the message.
C13_Witness ==
    /\ op = "process_sales_data"
    /\ args.readable
    /\ FieldsMissing = {"transaction_date"}
    /\ "TOTAL" \in Range(df.columns)
    /\ IsMissingColumnsError(result)
    /\ Contains(result.message, "Missing required columns: transaction_date.")
    /\ Contains(result.message, "sales_amount")

C13_WitnessAccepted ==
    /\ op = "process_sales_data"
    /\ "Client" \in Range(df.columns)
    /\ Len(df.rows) = 1
    /\ ~IsRaise(result)
    /\ Len(result.rows) = 1
(***************************************************************************)
(* Dates: a table whose transaction_date column holds texts in the         *)
(* configured formats, other texts and missing values has its dates parsed.*)
(***************************************************************************)
DateTextPool ==
    {NaN, Str("2024-01-15"), Str("01/15/2024"), Str("15/01/2024"),
     Str("2024-01-15 10:30:00"), Str("02/30/2024"), Str("soon")}

InitDates ==
    /\ df \in {Table(<<"customer_id", "transaction_date">>,
                     [i \in 1..Len(dates) |->
                         [customer_id |-> Str("C1"), transaction_date |-> dates[i]]]) :
                  dates \in SeqsUpTo(DateTextPool, MaxRawRows)}
    /\ args = None
    /\ op = "none"
    /\ result = None
    /\ NoSession

ParseDates ==
    /\ op = "none"
    /\ result' = parse_dates(df)
    /\ op' = "parse_dates"
    /\ UNCHANGED <<df, args, sessionVars>>

NextDates == ParseDates

SpecDates == InitDates /\ [][NextDates]_vars

(***************************************************************************)
(* C14: parse_dates leaves the column parsed with the first format, in the *)
(* configured order, that parses at least one of the original values,      *)
(* whatever the position of that format in the list; a value that format   *)
(* does not parse becomes an unknown date, and the column never fails.     *)
(* The code overwrites the column with the outcome of each attempt, so     *)
(* after a first format that parses nothing the later formats (and the     *)
(* permissive parse) see no text any more: this is violated.               *)
(***************************************************************************)
ParsedWith(cell, f) == IF cell.na THEN NaT ELSE Strptime(cell.v, DATE_FORMATS[f])

FormatParsesSome(cells, f) == \E i \in 1..Len(cells) : ~ParsedWith(cells[i], f).nat

C14_FirstParsingFormat ==
    op = "parse_dates" =>
        LET original == Col(df, "transaction_date")
            parsing == {f \in 1..Len(DATE_FORMATS) : FormatParsesSome(original, f)}
        IN  /\ Len(result.rows) = Len(df.rows)
            /\ \A i \in 1..Len(result.rows) : IsDatetime(result.rows[i]["transaction_date"])
            /\ parsing # {} =>
                   LET first == CHOOSE f \in parsing : \A g \in parsing : f <= g
                   IN  \A i \in 1..Len(original) :
                           result.rows[i]["transaction_date"] = ParsedWith(original[i], first)

\* The part of C14 the code does satisfy: a column with a value in the first
\* format is parsed with the first format.
C14_FirstFormatParsed ==
    op = "parse_dates" =>
        LET original == Col(df, "transaction_date")
        IN  FormatParsesSome(original, 1) =>
                \A i \in 1..Len(original) :
                    result.rows[i]["transaction_date"] = ParsedWith(original[i], 1)
(***************************************************************************)
(* C15: after cleaning, a table that has city and state columns but no     *)
(* location column has a location column whose value in each row is        *)
(* "{city}, {state}", literal "nan" texts in the location fields being     *)
(* replaced by the empty text.  clean_sales_data adds no column and leaves *)
(* city and state as they are: this is violated.                           *)
(***************************************************************************)
Blanked(cell) == IF cell.na \/ cell.v = "nan" THEN "" ELSE cell.v

C15_LocationDerived ==
    (op = "clean_sales_data" /\ HasCol(df, "city") /\ HasCol(df, "state")
        /\ ~HasCol(df, "location")) =>
        /\ HasCol(result, "location")
        /\ \A i \in 1..Len(result.rows) :
               result.rows[i]["location"] =
                   Blanked(result.rows[i]["city"]) \o ", " \o Blanked(result.rows[i]["state"])
(***************************************************************************)
(* C16: every query whose input or filters leave no rows returns an empty  *)
(* result of the expected shape and never raises.  Stated here for         *)
(* find_target_businesses_for_outreach, find_businesses_for_brand and      *)
(* match_brand_to_buyers (with and without a business-category filter)     *)
(* when the location or category filter matches no row.                    *)
(* match_brand_to_buyers without a business-category filter reads the      *)
(* category of the first filtered row, which does not exist: this is       *)
(* violated.                                                               *)
(***************************************************************************)
\* The rows of the input that the filters of the call keep.
RowsKeptByFilters ==
    IF op = "find_target_businesses_for_outreach"
    THEN WhereEq(OutreachFilter(df, args.location, args.state),
                 "business_category", args.business_category).rows
    ELSE IF op = "find_businesses_for_brand"
    THEN BrandFilter(df, args.business_categories, args.location_filter).rows
    ELSE MatcherFilter(df, args.location_filter, args.business_category_filter).rows

ExpectedColumns ==
    IF op = "find_target_businesses_for_outreach" THEN TargetColumns
    ELSE IF op = "find_businesses_for_brand" THEN MatchColumns
    ELSE MatcherColumns

C16_EmptyResultsNeverRaise ==
    (op \in {"find_target_businesses_for_outreach", "find_businesses_for_brand",
             "match_brand_to_buyers"}
        /\ RowsKeptByFilters = <<>>) =>
        /\ ~IsRaise(result)
        /\ result = Table(ExpectedColumns, <<>>)

\* The part of C16 that holds in the matching engine: every call but
\* match_brand_to_buyers without a business-category filter.
C16_EmptyMatchingResults ==
    (op \in {"find_target_businesses_for_outreach", "find_businesses_for_brand",
             "match_brand_to_buyers"}
        /\ (op = "match_brand_to_buyers" => args.business_category_filter # None)
        /\ RowsKeptByFilters = <<>>) =>
        result = Table(ExpectedColumns, <<>>)

\* The analytics on an enriched table with zero rows: the matrix and the
\* lists are empty.
C16_EmptyAnalyticsResults ==
    (Len(df.rows) = 0 /\ op # "none") =>
        /\ op = "calculate_category_matrix" => result.index = <<>> /\ result.columns = <<>>
        /\ op \in {"get_top_combinations", "identify_opportunities"} => result = <<>>

\* get_summary_statistics on an enriched table with zero rows, which has the
\* transaction_date column of the loading pipeline: it raises.
C16_EmptySummaryStatistics ==
    (op = "get_summary_statistics" /\ Len(df.rows) = 0) => ~IsRaise(result)
(***************************************************************************)
(* Regions: an enriched table that carries where each transaction took     *)
(* place is handed to the location search and the regional analysis.       *)
(***************************************************************************)
RegionalPurchasePool ==
    {<<"C1", pc, <<"Austin", "TX">>>> : pc \in {<<"P2", "Cards">>, <<"P3", "Toys">>}}
    \cup {<<"C2", pc, <<"Dallas", "TX">>>> : pc \in {<<"P1", "Gifts">>, <<"P2", "Cards">>}}
    \cup {<<"C3", <<"P2", "Cards">>, <<"Miami", "FL">>>>}

RegionalMappingPool ==
    { [c \in {"C1", "C2", "C3"} |-> <<"Retail", None>>],
      [c \in {"C1", "C2", "C3"} |-> IF c \in {"C1", "C3"} THEN <<"Retail", None>>
                                    ELSE <<"Healthcare", None>>] }

RegionalPool ==
    {merge_business_categories(
         Table(LocatedColumns(layout),
               [i \in 1..Len(ps) |->
                   LocatedRow(layout, ps[i][1], ps[i][2][1], ps[i][2][2], 100, ps[i][3])]),
         mapping) :
        ps \in SeqsUpTo(RegionalPurchasePool, MaxRows), layout \in LayoutPool,
        mapping \in RegionalMappingPool}

LocationQueryPool == {"Austin, TX", "dallas", ""}

RadiusPool == {10, 50}

InitRegional ==
    /\ df \in RegionalPool
    /\ args = None
    /\ op = "none"
    /\ result = None
    /\ NoSession

FindSimilarBusinessesByLocation ==
    /\ op = "none"
    /\ \E business_category \in {"Retail", "Healthcare"},
          product_category \in {"Gifts", "Cards"},
          location \in LocationQueryPool,
          radius_miles \in RadiusPool,
          n_recommendations \in 0..MaxN :
         /\ args' = [business_category |-> business_category,
                     product_category |-> product_category,
                     location |-> location,
                     radius_miles |-> radius_miles,
                     n_recommendations |-> n_recommendations]
         /\ result' \in find_similar_businesses_by_location(df, business_category,
                            product_category, location, radius_miles, n_recommendations)
    /\ op' = "find_similar_businesses_by_location"
    /\ UNCHANGED <<df, sessionVars>>

\* The caller's table is the object the function assigns the location column
\* to.
GetLocationInsights ==
    /\ op = "none"
    /\ result' \in get_location_insights(df)
    /\ df' = InsightsTable(df)
    /\ op' = "get_location_insights"
    /\ UNCHANGED <<args, sessionVars>>

FindLocationBasedOpportunities ==
    /\ op = "none"
    /\ \E product_category \in {"Gifts", "Cards"}, n_results \in 1..MaxN :
         /\ args' = [product_category |-> product_category, n_results |-> n_results]
         /\ result' \in find_location_based_opportunities(df, product_category, n_results)
    /\ op' = "find_location_based_opportunities"
    /\ UNCHANGED <<df, sessionVars>>

NextRegional ==
    \/ FindSimilarBusinessesByLocation
    \/ GetLocationInsights
    \/ FindLocationBasedOpportunities

SpecRegional == InitRegional /\ [][NextRegional]_vars
\* The token a customer's location must contain for the query: the state of
\* a "city, state" query, else the city, else the query itself.
QueryToken(location) ==
    LET parsed == ParseLocation(location)
    IN  IF Truthy(parsed.state) THEN parsed.state.v
        ELSE IF parsed.city # "" THEN parsed.city
        ELSE location

FirstRowOf(c) == CHOOSE i \in RowsOfCustomer(df.rows, c) : \A j \in RowsOfCustomer(df.rows, c) : i <= j

LocationMatched(c) ==
    Contains(lower(LocationOf(df.rows[FirstRowOf(c)])), lower(QueryToken(args.location)))

BuysQueried(c) == args.product_category \in CategoriesBought(df.rows, c)

HasTargetCategory(c) ==
    \A i \in RowsOfCustomer(df.rows, c) : df.rows[i]["business_category"] = args.business_category

\* The location-matched customers of the target business category that do not
\* buy the product category.
PreferredCustomers ==
    {c \in CustomersIn(df.rows) : LocationMatched(c) /\ HasTargetCategory(c) /\ ~BuysQueried(c)}

\* The customers the search chooses from.
CandidateCustomers ==
    IF PreferredCustomers # {} THEN PreferredCustomers
    ELSE {c \in CustomersIn(df.rows) : LocationMatched(c) /\ ~BuysQueried(c)}

ReturnedCustomers == {result.rows[i]["customer_id"] : i \in 1..Len(result.rows)}

\* C17: every customer find_similar_businesses_by_location returns is a
\* customer of the table whose location contains the query's token (the state
\* of a "city, state" query, else the city or the query), compared without
\* case, and who has no row with product_category; when some location-matched
\* customer of the target business category does not buy product_category,
\* every returned customer has the target business category.
C17_LocationMatchedTargets ==
    op = "find_similar_businesses_by_location" =>
        /\ ~IsRaise(result)
        /\ \A c \in ReturnedCustomers :
               c \in CustomersIn(df.rows) /\ LocationMatched(c) /\ ~BuysQueried(c)
        /\ PreferredCustomers # {} => \A c \in ReturnedCustomers : HasTargetCategory(c)

\* The preferred set is not empty and is what is returned, while a
\* location-matched customer of another category that does not buy the product
\* category either is left out.
C17_Witness ==
    /\ op = "find_similar_businesses_by_location"
    /\ PreferredCustomers # {}
    /\ ReturnedCustomers = PreferredCustomers
    /\ \E c \in CustomersIn(df.rows) \ ReturnedCustomers :
           LocationMatched(c) /\ ~BuysQueried(c) /\ ~HasTargetCategory(c)
    /\ \E c \in CustomersIn(df.rows) : ~LocationMatched(c)

\* No preferred customer: a customer of another category is returned.
C17_WitnessFallback ==
    /\ op = "find_similar_businesses_by_location"
    /\ PreferredCustomers = {}
    /\ \E c \in ReturnedCustomers : ~HasTargetCategory(c)
    /\ \E c \in CustomersIn(df.rows) : LocationMatched(c) /\ BuysQueried(c)

DistinctCategories(c) == Cardinality(CategoriesBought(df.rows, c))

\* C18: find_similar_businesses_by_location returns at most n_recommendations
\* rows, each customer at most once, in ascending order of the number of
\* distinct product categories the customer has bought, and no candidate that
\* is left out has bought strictly fewer categories than a returned one.
C18_FewestCategoriesFirst ==
    op = "find_similar_businesses_by_location" =>
        /\ Len(result.rows) <= args.n_recommendations
        /\ Cardinality(ReturnedCustomers) = Len(result.rows)
        /\ ReturnedCustomers \subseteq CandidateCustomers
        /\ \A i \in 1..Len(result.rows) :
               result.rows[i]["opportunity_score"] = DistinctCategories(result.rows[i]["customer_id"])
        /\ \A i \in 1..(Len(result.rows) - 1) :
               DistinctCategories(result.rows[i]["customer_id"])
                   <= DistinctCategories(result.rows[i + 1]["customer_id"])
        /\ \A c \in CandidateCustomers \ ReturnedCustomers, r \in ReturnedCustomers :
               DistinctCategories(c) >= DistinctCategories(r)
        /\ Len(result.rows) < args.n_recommendations => ReturnedCustomers = CandidateCustomers

\* A candidate with more categories is cut off by n_recommendations, though it
\* comes first in the table.
C18_Witness ==
    /\ op = "find_similar_businesses_by_location"
    /\ Len(result.rows) = args.n_recommendations
    /\ \E c \in CandidateCustomers \ ReturnedCustomers, r \in ReturnedCustomers :
           /\ DistinctCategories(c) > DistinctCategories(r)
           /\ FirstRowOf(c) < FirstRowOf(r)

\* Two returned rows with different counts.
C18_WitnessOrdered ==
    /\ op = "find_similar_businesses_by_location"
    /\ Len(result.rows) = 2
    /\ result.rows[1]["opportunity_score"] < result.rows[2]["opportunity_score"]

FitPurchasePool ==
    {<<"C1", pc, <<"Austin", "TX">>>> : pc \in {<<"P1", "Gifts">>, <<"P2", "Cards">>}}
    \cup {<<"C2", pc, <<"Dallas", "TX">>>> : pc \in {<<"P2", "Cards">>, <<"P4", "Books">>}}
    \cup {<<"C2", <<"P1", "Gifts">>, <<"Miami", "FL">>>>,
          <<"C3", <<"P1", "Gifts">>, <<"Reno", "">>>>,
          <<"C3", <<"P1", "Gifts">>, <<"Lima", "nan">>>>}

FitMapping == [c \in {"C1", "C2", "C3"} |-> IF c = "C2" THEN <<"Healthcare", None>> ELSE <<"Retail", None>>]

\* Tables with a location or with a city and a state, and tables with neither.
FitPool ==
    {merge_business_categories(
         Table(LocatedColumns(layout),
               [i \in 1..Len(ps) |->
                   LocatedRow(layout, ps[i][1], ps[i][2][1], ps[i][2][2], 100, ps[i][3])]),
         FitMapping) :
        ps \in SeqsUpTo(FitPurchasePool, MaxRows), layout \in LayoutPool}
    \cup {merge_business_categories(
              Table(SalesColumns,
                    [i \in 1..Len(ps) |-> SalesRow(ps[i][1], ps[i][2][1], ps[i][2][2], 100)]),
              FitMapping) :
             ps \in SeqsUpTo(FitPurchasePool, 1)}

FitCatalogPool == BrandCatalogPool \cup {Table(BrandColumns, <<>>)}

InitFit ==
    /\ df \in FitPool
    /\ args = None
    /\ op = "none"
    /\ result = None
    /\ NoSession

AnalyzeBrandRegionalFit ==
    /\ op = "none"
    /\ \E brand_products_df \in FitCatalogPool :
         /\ args' = [brand_products_df |-> brand_products_df]
         /\ result' = analyze_brand_regional_fit(df, brand_products_df)
    /\ op' = "analyze_brand_regional_fit"
    /\ UNCHANGED <<df, sessionVars>>

NextFit ==
    \/ AnalyzeBrandRegionalFit

SpecFit == InitFit /\ [][NextFit]_vars

\* The state of a row: its state column, else the last part of its location.
StateOfRow(r) ==
    IF "state" \in DOMAIN r THEN r["state"]
    ELSE IF "location" \in DOMAIN r THEN LastPart(r["location"])
    ELSE ""

NamedStates ==
    {StateOfRow(df.rows[i]) : i \in 1..Len(df.rows)} \ {"", "nan"}

StateRows(state) == {i \in 1..Len(df.rows) : StateOfRow(df.rows[i]) = state}

StateCategories(state) == {df.rows[i]["product_category"] : i \in StateRows(state)}

StateCustomers(state) == {df.rows[i]["customer_id"] : i \in StateRows(state)}

StateBrandBuyers(state) ==
    {df.rows[i]["customer_id"] :
        i \in {j \in StateRows(state) :
                  df.rows[j]["product_category"] \in BrandCategoriesOf(args.brand_products_df)}}

\* 0.6 * (shared / brand) + 0.4 * (buyers / customers), as a quotient
ExpectedFit(state) ==
    LET brand == Cardinality(BrandCategoriesOf(args.brand_products_df))
        shared == Cardinality(StateCategories(state) \cap BrandCategoriesOf(args.brand_products_df))
        buyers == Cardinality(StateBrandBuyers(state))
        customers == Cardinality(StateCustomers(state))
    IN  Ratio(6 * shared * customers + 4 * buyers * brand, 10 * brand * customers)

\* C20: analyze_brand_regional_fit has an entry for each state with a name
\* other than "" and "nan", and for no other; when the brand has a category,
\* the entry's fit_score is 0.6 times the share of the brand's categories sold
\* in the state plus 0.4 times the share of the state's customers with a
\* purchase in a brand category; every fit_score lies between 0 and 1.
C20_RegionalFitScore ==
    op = "analyze_brand_regional_fit" =>
        /\ DOMAIN result = NamedStates
        /\ \A state \in NamedStates :
               /\ BrandCategoriesOf(args.brand_products_df) # {} =>
                      RatioEq(result[state]["fit_score"], ExpectedFit(state))
               /\ result[state]["fit_score"].den > 0
               /\ 0 <= result[state]["fit_score"].num
               /\ result[state]["fit_score"].num <= result[state]["fit_score"].den

\* A state whose two shares differ and whose score is strictly between 0 and
\* 1, beside a row whose state has no name.
C20_Witness ==
    /\ op = "analyze_brand_regional_fit"
    /\ NamedStates # {StateOfRow(df.rows[i]) : i \in 1..Len(df.rows)}
    /\ \E state \in NamedStates :
           /\ Cardinality(StateCategories(state) \cap BrandCategoriesOf(args.brand_products_df))
                  * Cardinality(StateCustomers(state))
              # Cardinality(StateBrandBuyers(state))
                  * Cardinality(BrandCategoriesOf(args.brand_products_df))
           /\ 0 < result[state]["fit_score"].num
           /\ result[state]["fit_score"].num < result[state]["fit_score"].den

\* A state with both shares full scores 1.
C20_WitnessFull ==
    /\ op = "analyze_brand_regional_fit"
    /\ \E state \in NamedStates : RatioEq(result[state]["fit_score"], Ratio(1, 1))

\* An empty catalogue scores every state 0.
C20_WitnessNoBrand ==
    /\ op = "analyze_brand_regional_fit"
    /\ args.brand_products_df.rows = <<>>
    /\ \E state \in NamedStates : result[state]["fit_score"].num = 0
(***************************************************************************)
(* C21: in find_businesses_for_brand, the opportunity_score of each        *)
(* returned customer is the number of distinct product categories the      *)
(* customer buys (in the rows that pass the filters) when one of them is a *)
(* brand category, and that number plus 10 when none is.                   *)
(***************************************************************************)
C21_BrandOpportunityScore ==
    op = "find_businesses_for_brand" =>
        LET kept == BrandFilter(df, args.business_categories, args.location_filter).rows
            brand == BrandCategoriesOf(args.brand_products_df)
        IN  \A i \in 1..Len(result.rows) :
                LET bought == CategoriesBought(kept, result.rows[i]["customer_id"])
                IN  /\ result.rows[i]["product_diversity"] = Cardinality(bought)
                    /\ result.rows[i]["opportunity_score"] =
                           IF bought \cap brand # {} THEN Cardinality(bought)
                           ELSE Cardinality(bought) + 10

\* One call returns a customer that buys a brand category, with score 2, and
\* a customer that buys none, with score 11.
C21_Witness ==
    /\ op = "find_businesses_for_brand"
    /\ \E i, j \in 1..Len(result.rows) :
           /\ result.rows[i]["category_overlap"] = 1
           /\ result.rows[i]["opportunity_score"] = 2
           /\ result.rows[j]["category_overlap"] = 0
           /\ result.rows[j]["opportunity_score"] = 11
\* The business category match_brand_to_buyers looks for: its filter, else the
\* category of the first row left by the location filter.
MatcherCategory ==
    IF Truthy(args.business_category_filter) THEN args.business_category_filter.v
    ELSE MatcherFilter(df, args.location_filter, args.business_category_filter).rows[1]["business_category"]

\* The rows the outreach search reads when match_brand_to_buyers calls it.
MatcherSearched ==
    OutreachFilter(MatcherFilter(df, args.location_filter, args.business_category_filter),
                   args.location_filter, None).rows

\* Whether a customer is a target for a brand category: a customer of the
\* category looked for without a purchase in the brand category.
QualifiesFor(c, brand_category) ==
    /\ \E i \in RowsOfCustomer(MatcherSearched, c) :
           MatcherSearched[i]["business_category"] = MatcherCategory
    /\ brand_category \notin CategoriesBought(MatcherSearched, c)

\* The brand's categories in catalogue order.
CatalogOrder == Unique(Col(args.brand_products_df, "product_category"))

(***************************************************************************)
(* C22: the tables find_businesses_for_brand and match_brand_to_buyers     *)
(* return hold each customer_id at most once and are in ascending order of *)
(* opportunity_score; the row match_brand_to_buyers keeps for a customer   *)
(* is the one of the first brand category, in catalogue order, for which   *)
(* the customer is a target.                                               *)
(***************************************************************************)
C22_UniqueSortedMatches ==
    (op \in {"find_businesses_for_brand", "match_brand_to_buyers"} /\ ~IsRaise(result)) =>
        /\ Len(result.rows) = Cardinality(CustomersIn(result.rows))
        /\ \A i \in 1..(Len(result.rows) - 1) :
               result.rows[i]["opportunity_score"] <= result.rows[i + 1]["opportunity_score"]
        /\ op = "match_brand_to_buyers" =>
               \A i \in 1..Len(result.rows) :
                   \E k \in 1..Len(CatalogOrder) :
                       /\ result.rows[i]["brand_category"] = CatalogOrder[k]
                       /\ QualifiesFor(result.rows[i]["customer_id"], CatalogOrder[k])
                       /\ \A j \in 1..(k - 1) :
                              ~QualifiesFor(result.rows[i]["customer_id"], CatalogOrder[j])

\* match_brand_to_buyers returns two customers in order of their scores, one
\* of them a target for both categories of the catalogue.
C22_Witness ==
    /\ op = "match_brand_to_buyers"
    /\ ~IsRaise(result)
    /\ Len(result.rows) = 2
    /\ result.rows[1]["opportunity_score"] < result.rows[2]["opportunity_score"]
    /\ Len(CatalogOrder) = 2
    /\ \E i \in 1..2 :
           /\ QualifiesFor(result.rows[i]["customer_id"], CatalogOrder[1])
           /\ QualifiesFor(result.rows[i]["customer_id"], CatalogOrder[2])

\* find_businesses_for_brand returns two customers in order of their scores.
C22_WitnessBrand ==
    /\ op = "find_businesses_for_brand"
    /\ Len(result.rows) = 2
    /\ result.rows[1]["opportunity_score"] < result.rows[2]["opportunity_score"]
    /\ result.rows[1]["customer_id"] = "C2"
(***************************************************************************)
(* C29: a call of find_businesses_for_brand with min_match_score > 0 (0.3  *)
(* is what generate_brand_outreach_list passes) returns only rows with     *)
(* category_overlap >= 1, whose opportunity_score is their                 *)
(* product_diversity and whose recommended products are those of the brand *)
(* categories the customer buys, not the first five of the catalogue taken *)
(* for want of any.                                                        *)
(***************************************************************************)
C29_PositiveMinimumNoPenalty ==
    (op = "find_businesses_for_brand" /\ RatioLess(Ratio(0, 1), args.min_match_score)) =>
        LET kept == BrandFilter(df, args.business_categories, args.location_filter).rows
        IN  \A i \in 1..Len(result.rows) :
                LET by_category ==
                        RecommendedFor(CatalogOrder,
                                       CategoriesBought(kept, result.rows[i]["customer_id"]),
                                       args.brand_products_df)
                IN  /\ result.rows[i]["category_overlap"] >= 1
                    /\ result.rows[i]["opportunity_score"] = result.rows[i]["product_diversity"]
                    /\ by_category # <<>>
                    /\ result.rows[i]["recommended_products"] = Join(FirstN(by_category, 5), " | ")

\* With the minimum 0.3 a customer that buys a brand category is returned and
\* a customer that passes the filters and buys none is left out.
C29_Witness ==
    /\ op = "find_businesses_for_brand"
    /\ RatioEq(args.min_match_score, Ratio(3, 10))
    /\ result.rows # <<>>
    /\ \E c \in CustomersIn(BrandFilter(df, args.business_categories, args.location_filter).rows)
               \ CustomersIn(result.rows) :
           CategoriesBought(BrandFilter(df, args.business_categories, args.location_filter).rows, c)
               \cap BrandCategoriesOf(args.brand_products_df) = {}

(***************************************************************************)
(* C30: match_brand_to_buyers called without a business_category_filter    *)
(* returns only rows with the business_category of the first row the       *)
(* location filter leaves, and only customers that have a row of that      *)
(* category.                                                               *)
(***************************************************************************)
C30_FirstRowCategoryOnly ==
    (op = "match_brand_to_buyers" /\ ~Truthy(args.business_category_filter) /\ ~IsRaise(result)) =>
        LET filtered == MatcherFilter(df, args.location_filter, None).rows
        IN  \A i \in 1..Len(result.rows) :
                /\ result.rows[i]["business_category"] = filtered[1]["business_category"]
                /\ \E j \in RowsOfCustomer(filtered, result.rows[i]["customer_id"]) :
                       filtered[j]["business_category"] = filtered[1]["business_category"]

\* A customer of the first row's category is returned, and a customer of
\* another category that buys no category of the brand is not.
C30_Witness ==
    /\ op = "match_brand_to_buyers"
    /\ ~Truthy(args.business_category_filter)
    /\ ~IsRaise(result)
    /\ result.rows # <<>>
    /\ \E c \in CustomersIn(df.rows) \ CustomersIn(result.rows) :
           /\ CategoriesBought(df.rows, c) \cap BrandCategoriesOf(args.brand_products_df) = {}
           /\ \A j \in RowsOfCustomer(df.rows, c) :
                  df.rows[j]["business_category"] # df.rows[1]["business_category"]
(***************************************************************************)
(* Trends: an enriched table with its parsed transaction_date column is    *)
(* handed to the trend analysis.                                           *)
(***************************************************************************)
TrendDatePool ==
    {NaT, Timestamp(2023, 12, 31), Timestamp(2024, 1, 1), Timestamp(2024, 1, 15),
     Timestamp(2024, 1, 21), Timestamp(2024, 4, 1)}

TrendRowPool ==
    {[customer_id |-> cp[1], product_id |-> cp[2], product_category |-> cp[3],
      sales_amount |-> a, transaction_date |-> d] :
        cp \in {<<"C1", "P1", "Gifts">>, <<"C1", "P2", "Cards">>, <<"C2", "P1", "Gifts">>},
        a \in {50, 100}, d \in TrendDatePool}

TrendPool ==
    {merge_business_categories(
         Table(REQUIRED_COLUMNS, rows),
         [c \in {"C1", "C2"} |-> IF c = "C1" THEN <<"Retail", None>> ELSE <<"Healthcare", None>>]) :
        rows \in SeqsUpTo(TrendRowPool, MaxDatedRows)}

InitTrends ==
    /\ df \in TrendPool
    /\ args = None
    /\ op = "none"
    /\ result = None
    /\ NoSession

CalculateTrends ==
    /\ op = "none"
    /\ \E period \in TrendPeriods :
         /\ args' = [period |-> period]
         /\ result' = calculate_trends(df, period)
    /\ op' = "calculate_trends"
    /\ UNCHANGED <<df, sessionVars>>

NextTrends ==
    \/ CalculateTrends

SpecTrends == InitTrends /\ [][NextTrends]_vars

\* The rows of the table that have a date, and the group of each.
DatedRows == {i \in 1..Len(df.rows) : ~df.rows[i]["transaction_date"].nat}

TrendKey(r) ==
    <<PeriodLabel(r["transaction_date"], args.period), r["business_category"],
      r["product_category"]>>

TrendGroup(key) == {i \in DatedRows : TrendKey(df.rows[i]) = key}

OutputKey(r) == <<r["period"], r["business_category"], r["product_category"]>>

(***************************************************************************)
(* C23: calculate_trends returns one row for each (period,                 *)
(* business_category, product_category) that occurs among the rows with a  *)
(* known date and no other, holding the sum of sales_amount of exactly      *)
(* those rows; the output total is the total of the dated rows.            *)
(***************************************************************************)
C23_TrendSums ==
    op = "calculate_trends" =>
        /\ ~IsRaise(result)
        /\ {OutputKey(result.rows[k]) : k \in 1..Len(result.rows)}
               = {TrendKey(df.rows[i]) : i \in DatedRows}
        /\ \A j, k \in 1..Len(result.rows) :
               OutputKey(result.rows[j]) = OutputKey(result.rows[k]) => j = k
        /\ \A k \in 1..Len(result.rows) :
               result.rows[k]["sales_amount"] = SumOver(df, TrendGroup(OutputKey(result.rows[k])))
        /\ SumSeq(Amounts(result.rows)) = SumOver(df, DatedRows)

\* Two rows a day apart, the last Sunday of 2023 and the first Monday of
\* 2024, fall into two weeks.
C23_Witness ==
    /\ op = "calculate_trends"
    /\ args.period = "W"
    /\ Len(df.rows) = 2
    /\ df.rows[1]["transaction_date"] = Timestamp(2023, 12, 31)
    /\ df.rows[2]["transaction_date"] = Timestamp(2024, 1, 1)
    /\ Len(result.rows) = 2
    /\ result.rows[1]["period"] = "2023-12-25/2023-12-31"
    /\ result.rows[2]["period"] = "2024-01-01/2024-01-07"

\* A row without a date is left out beside a dated row.
C23_WitnessUnknownDate ==
    /\ op = "calculate_trends"
    /\ Len(df.rows) = 2
    /\ Cardinality(DatedRows) = 1
    /\ Len(result.rows) = 1
    /\ SumSeq(Amounts(result.rows)) < SumSeq(Amounts(df.rows))

\* Two rows of one group are summed.
C23_WitnessSummed ==
    /\ op = "calculate_trends"
    /\ args.period = "Q"
    /\ Len(df.rows) = 2
    /\ df.rows[1]["transaction_date"] # df.rows[2]["transaction_date"]
    /\ Len(result.rows) = 1
    /\ result.rows[1]["period"] = "2024Q1"
    /\ result.rows[1]["sales_amount"] = 150
(***************************************************************************)
(* C24: no analytics, location, outreach or brand-matching call changes    *)
(* the table passed to it: every step leaves the caller's table with the   *)
(* columns and the rows it had.                                            *)
(***************************************************************************)
C24_InputTableUnchanged == [][df' = df]_vars

\* The calls other than get_location_insights leave the table as it was.
C24_OtherCallsKeepTable == [][op' # "get_location_insights" => df' = df]_vars

\* The loads a step attempted and that raised.
FailedSalesUpload(a) == a.uploaded_file # None /\ IsRaise(ProcessedFiles[a.uploaded_file.v])

FailedMappingUpload(a) == a.mapping_file # None /\ IsRaise(LoadedMappings[a.mapping_file.v].v)

FailedSample(a) == a.sample # None /\ LoadedSamples[a.sample.v][1] = None

\* A run of the script in which a load fails and no load succeeds.
OnlyFailedLoads(a) ==
    /\ a.sample = None \/ FailedSample(a)
    /\ a.uploaded_file = None \/ FailedSalesUpload(a)
    /\ a.mapping_file = None \/ FailedMappingUpload(a)
    /\ FailedSample(a) \/ FailedSalesUpload(a) \/ FailedMappingUpload(a)

(***************************************************************************)
(* C25: a load that raises leaves the session as it was: a run in which    *)
(* the sales file fails to process keeps sales_data unless the sample      *)
(* loads, a run in which the mapping file fails to load keeps              *)
(* business_mapping unless the sample loads or the businesses are          *)
(* classified, and a run in which a load fails, none succeeds and no       *)
(* classification is asked for keeps sales_data, business_mapping and      *)
(* processed_data.                                                         *)
(***************************************************************************)
C25_FailedLoadKeepsSession ==
    [][ /\ (FailedSalesUpload(args') /\ (args'.sample = None \/ FailedSample(args')))
            => sales_data' = sales_data
        /\ (FailedMappingUpload(args') /\ (args'.sample = None \/ FailedSample(args'))
                /\ args'.clicked # "auto")
            => business_mapping' = business_mapping
        /\ (OnlyFailedLoads(args') /\ args'.clicked # "auto")
            => /\ sales_data' = sales_data
               /\ business_mapping' = business_mapping
               /\ processed_data' = processed_data ]_vars

\* A run with data in the session in which the sales file fails to process.
C25_Witness ==
    /\ op = "render"
    /\ FailedSalesUpload(args)
    /\ OnlyFailedLoads(args)
    /\ sales_data # None
    /\ processed_data # None

\* A run in which the sample's sales file processes and its mapping file
\* fails to load.
C25_WitnessSample ==
    /\ args # None
    /\ args.sample = Some(<<"A", "M3">>)
    /\ FailedSample(args)
    /\ business_mapping # None

\* A run with a mapping in the session in which the mapping file fails to load.
C25_WitnessMapping ==
    /\ op = "render"
    /\ FailedMappingUpload(args)
    /\ business_mapping # None
C27_WitnessMerged ==
    /\ op = "render"
    /\ args.uploaded_file # None
    /\ args.mapping_file # None
    /\ business_mapping # None
    /\ processed_data = merge_business_categories(sales_data, business_mapping.v)
    /\ \E i \in 1..Len(processed_data.rows) : processed_data.rows[i]["business_category"] # "Unknown"
(***************************************************************************)
(* Renaming: a table with pairwise distinct column names, several of which *)
(* may be names of one field, has its columns normalized.                  *)
(***************************************************************************)
MaxColumns == 3

ColumnNamePool ==
    {"customer", "customer_id", "Client", "CLIENT_ID", "Date", "purchase_date", "Province",
     "state", "notes"}

InitRename ==
    /\ \E columns \in {c \in SeqsUpTo(ColumnNamePool, MaxColumns) : Injective(c)} :
           df = [columns |-> columns, cells |-> <<[i \in 1..Len(columns) |-> Str(columns[i])]>>]
    /\ args = None
    /\ op = "none"
    /\ result = None
    /\ NoSession

NormalizeFrameColumns ==
    /\ op = "none"
    /\ result' = NormalizeFrame(df)
    /\ op' = "normalize_column_names"
    /\ UNCHANGED <<df, args, sessionVars>>

NextRename ==
    \/ NormalizeFrameColumns

SpecRename == InitRename /\ [][NextRename]_vars

\* Whether column i is the first column, in table order, whose name is one
\* of the names of entry e of COLUMN_MAPPINGS, the case of letters ignored.
IsAliasOf(e, name) ==
    \E k \in 1..Len(COLUMN_MAPPINGS[e].names) : lower(name) = lower(COLUMN_MAPPINGS[e].names[k])

IsFirstAlias(e, i) ==
    /\ IsAliasOf(e, df.columns[i])
    /\ \A j \in 1..(i - 1) : ~IsAliasOf(e, df.columns[j])

(***************************************************************************)
(* C26: normalize_column_names gives the name of a canonical field to the  *)
(* first column, in table order, whose name is one of the field's aliases  *)
(* ignoring case, and to no other column; every other column keeps its     *)
(* name, and the order of the columns and the cells are unchanged.         *)
(***************************************************************************)
C26_FirstAliasRenamed ==
    op = "normalize_column_names" =>
        /\ Len(result.columns) = Len(df.columns)
        /\ result.cells = df.cells
        /\ \A i \in 1..Len(df.columns) :
               /\ \A e \in 1..Len(COLUMN_MAPPINGS) :
                      IsFirstAlias(e, i) => result.columns[i] = COLUMN_MAPPINGS[e].standard
               /\ (\A e \in 1..Len(COLUMN_MAPPINGS) : ~IsFirstAlias(e, i))
                      => result.columns[i] = df.columns[i]

\* Two aliases of one field: the first is renamed, the second keeps its name.
C26_Witness ==
    /\ op = "normalize_column_names"
    /\ df.columns = <<"notes", "CLIENT_ID", "customer">>
    /\ result.columns = <<"notes", "customer_id", "customer">>

(***************************************************************************)
(* C28: the column names normalize_column_names returns for a table with   *)
(* pairwise distinct column names are pairwise distinct.                   *)
(***************************************************************************)
C28_DistinctColumnNames ==
    op = "normalize_column_names" => Injective(result.columns)
====
